---- MODULE Spec2Model ----
(***************************************************************************)
(* Model of the omron-garmin-bridge deduplication ledger                   *)
(* (src/src/duplicate_filter.py) and sync orchestrator (src/src/main.py),  *)
(* with the two sinks (src/src/garmin_uploader.py,                         *)
(* src/src/mqtt_publisher.py) as far as the orchestrator drives them.      *)
(*                                                                         *)
(* Three specifications share the variables:                               *)
(*   SpecLedger  the ledger's API called in any order by one caller        *)
(*   SpecConc    two orchestrators interleaving filter_new_records and     *)
(*               mark_as_uploaded on one ledger                            *)
(*   Spec        the sync / daemon commands running sync cycles            *)
(***************************************************************************)
EXTENDS Integers, Sequences, FiniteSets, TLC

(***************************************************************************)
(* Bounds of the model.                                                    *)
(***************************************************************************)
\* longest list handed to filter_new_records by the API caller
MaxLen == 2
\* mark_as_uploaded calls one concurrent orchestrator makes
MaxMarks == 2
\* sync cycles run in one behaviour (over all commands)
MaxCycles == 2
\* records the device ring buffer holds
MaxRecords == 2
\* interval_minutes * 60: the asyncio.sleep(1) steps between two daemon cycles
MaxSleepSteps == 2
\* timeout_s of _send_and_wait, in tenths of a second (1.0 s in the source)
TimeoutTenths == 1
\* records_per_user: the slots of a user's ring (100 in HEM7361T)
MaxRingSlots == 1
\* calls a caller of the protocol itself makes
MaxOps == 2
\* frames the device has sent and the host has not yet received
MaxWire == 1
\* read_continuous: the most bytes asked for (besides two default blocks)
MaxReadBytes == 3
\* read_continuous: the largest block size (besides the default 0x10)
MaxBlockSize == 2
\* is_duplicate_in_garmin: the most measurements in existing_readings
MaxRemote == 2
\* _rx_callback: frames the device sends one after the other
MaxFrames == 2

(***************************************************************************)
(* BloodPressureReading (src/src/models.py).  Timestamps are seconds on a  *)
(* local civil clock.                                                      *)
(***************************************************************************)
Reading(ts, sys, dia, pulse, ihb, mov, slot) ==
    [timestamp |-> ts, systolic |-> sys, diastolic |-> dia, pulse |-> pulse,
     irregular_heartbeat |-> ihb, body_movement |-> mov, user_slot |-> slot]

R1 == Reading(100, 118, 78, 70, FALSE, FALSE, 1)
\* a later measurement of the same user
R2 == Reading(500, 142, 92, 75, FALSE, FALSE, 1)
\* the values and instant of R1 under the other user slot
R3 == Reading(100, 118, 78, 70, FALSE, FALSE, 2)
\* R1 with the irregular-heartbeat flag, which the fingerprint leaves out
R1ihb == Reading(100, 118, 78, 70, TRUE, FALSE, 1)

\* the records the device stores, in the order it stores them: R1, then R3
\* (to Garmin a duplicate of R1), then R2; the device holds the first
\* 0..MaxRecords of them
DeviceOrder == <<R1, R3, R2>>
DeviceReadings == {DeviceOrder[i] : i \in 1..Len(DeviceOrder)}
\* readings a caller of the ledger API can pass
ApiReadings == {R1, R1ihb, R3}

\* record_hash: the "_"-joined text of the five fields, kept as the tuple of
\* the joined parts (decimal digits and ISO text hold no "_", so the join is
\* one-to-one on the parts)
record_hash(r) ==
    <<r.timestamp, r.systolic, r.diastolic, r.pulse, r.user_slot>>

\* mutant: the bounds of the rules belong to the lower category
category_bounds_included(r) ==
    IF r.systolic <= 120 /\ r.diastolic <= 80 THEN "optimal"
    ELSE IF r.systolic <= 130 /\ r.diastolic <= 85 THEN "normal"
    ELSE IF r.systolic <= 140 /\ r.diastolic <= 90 THEN "high_normal"
    ELSE IF r.systolic <= 160 /\ r.diastolic <= 100 THEN "grade1_hypertension"
    ELSE IF r.systolic <= 180 /\ r.diastolic <= 110 THEN "grade2_hypertension"
    ELSE "grade3_hypertension"

category(r) ==
    IF r.systolic < 120 /\ r.diastolic < 80 THEN "optimal"
    ELSE IF r.systolic < 130 /\ r.diastolic < 85 THEN "normal"
    ELSE IF r.systolic < 140 /\ r.diastolic < 90 THEN "high_normal"
    ELSE IF r.systolic < 160 /\ r.diastolic < 100 THEN "grade1_hypertension"
    ELSE IF r.systolic < 180 /\ r.diastolic < 110 THEN "grade2_hypertension"
    ELSE "grade3_hypertension"

\* an optional bool argument: None or a value
None == <<>>
Some(b) == <<b>>
OptBool == {None, Some(TRUE), Some(FALSE)}

\* all sequences over S of length 0..n
SeqsUpTo(S, n) == UNION {[1..k -> S] : k \in 0..n}

(***************************************************************************)
(* State.                                                                  *)
(***************************************************************************)
VARIABLES
    db,          \* table uploaded_records: [rows: set of rows, seq: last AUTOINCREMENT id]
    lastCall,    \* the ledger API call that made the last step (SpecLedger)
    filterOut,   \* what the call of the last step returned, if it was filter_new_records
    markedAny,   \* history: fingerprints mark_as_uploaded was called for
    markedG,     \* SpecConc history: fingerprints some mark_as_uploaded passed garmin=True for
    markedM,     \* SpecConc history: fingerprints some mark_as_uploaded passed mqtt=True for
    raised,      \* SpecConc history: number of mark_as_uploaded calls that raised
    opc,         \* SpecConc: position of each concurrent orchestrator
    orecs,       \* SpecConc: the records each orchestrator filters
    oidx,        \* SpecConc: index of filter_new_records' loop
    onew,        \* SpecConc: new_records of each orchestrator
    omarks,      \* SpecConc: mark_as_uploaded calls each orchestrator made
    pc,          \* Spec: position of the command (cmd_sync / cmd_daemon / sync)
    cmd,         \* Spec: the command running: "none", "sync" or "daemon"
    args,        \* Spec: its flags [garmin_only, mqtt_only, dry_run]
    init_ok,     \* Spec: what _init_garmin and _init_mqtt returned
    bridge_garmin, \* Spec: bridge.garmin: "None", "logged_out" or "logged_in"
    bridge_mqtt, \* Spec: bridge.mqtt: "None", "disconnected" or "connected"
    running,     \* Spec: bridge._running
    exit_code,   \* Spec: the command's exit code, -1 while there is none
    call,        \* Spec: arguments of sync(): [garmin_enabled, mqtt_enabled, dry_run]
    device,      \* Spec: the records the device holds
    sync_records, \* Spec: sync's records
    new_records, \* Spec: sync's new_records
    summary,     \* Spec: sync's summary
    garminRemote,\* Spec: the measurements Garmin Connect holds
    mqttBus,     \* Spec: the readings published to the broker
    garminLog,   \* Spec history: outcome of each candidate at Garmin in this cycle
    mqttLog,     \* Spec history: outcome of each candidate at MQTT in this cycle
    sessions,    \* Spec history: device connections made since the command started
    db0,         \* Spec history: the ledger when the cycle (or command) started
    cycle,       \* Spec history: number of sync() calls so far
    prev,        \* Spec history: the last finished sync() call
    slept,       \* Spec: run_daemon's sleep loop: asyncio.sleep(1) calls finished
    caller,      \* SpecProto: who drives the protocol
    config,      \* SpecProto: config["omron"]: [read_mode, sync_time]
    driver_args, \* SpecProto: get_all_records' [use_unread_counter, sync_time]
    settings,    \* SpecProto: the device's unread info of each user: [last_slot, unread]
    read_args,   \* SpecProto: read_continuous's [start_address, bytes_to_read, block_size]
    program,     \* SpecProto: the protocol calls the caller makes, in order
    ip,          \* SpecProto: index in program of the call running or due
    ppc,         \* SpecProto: position within the call
    rx_notify_enabled, \* SpecProto: protocol._rx_notify_enabled
    rx_finished, \* SpecProto: protocol._rx_finished
    rx_packet_type,    \* SpecProto: protocol._rx_packet_type
    rx_eeprom_address, \* SpecProto: protocol._rx_eeprom_address
    rx_data_bytes,     \* SpecProto: protocol._rx_data_bytes
    rx_last,     \* SpecProto history: the frame last stored: its bytes, the call
                 \* whose command it answers, the characteristic it came by
    handed,      \* SpecProto history: the last _send_and_wait return: the call and
                 \* the call that the frame handed to it answers
    sleep_parity, \* SpecProto: parity of the sleeps finished in unlock_with_key's loop
    retries,     \* SpecProto: _send_and_wait's retries
    current_timeout,   \* SpecProto: _send_and_wait's current_timeout, in tenths of a second
    ch_idx,      \* SpecProto: _send_and_wait's ch_idx: the next fragment to write
    tx_log,      \* SpecProto history: channels written since the call started
    wire,        \* SpecProto: frames the device has sent and the host has not received
    session,     \* SpecProto history: the session state: idle, unlocked, opened, closed
    written,     \* SpecProto: settings sections the device has taken a write for
    outcome,     \* SpecProto: how the caller's run ended: "running", "ok" or the error
    returned,    \* SpecProto: what the call that ended last returned, if it was a read
    read_data,   \* SpecProto: read_continuous's data
    rx_rejected, \* SpecProto history: frames _rx_callback raised on during the present call
    fn_in,       \* specifications of single functions: the arguments drawn
    fn_out,      \* specifications of single functions: the result, once applied
    rx_channel_buffer, \* SpecRx: protocol._rx_channel_buffer
    rx_frame,    \* SpecRx: the frame the device is sending, in fragments
    rx_air,      \* SpecRx: the channels whose fragment of it has not arrived
    rx_order,    \* SpecRx history: the channels whose fragment has, in their order
    rx_sent,     \* SpecRx: frames the device has sent
    rx_emitted,  \* SpecRx history: what _rx_callback has stored since the frame was sent
    rx_raises,   \* SpecRx history: times _rx_callback has raised since then
    reader,      \* SpecClient: who reads the device: read_from_device or read_omron_device
    mac_given,   \* SpecClient: whether the client was given a MAC address
    reader_args, \* SpecClient: [only_new, sync_time] of read_all_records_flat
    cpc,         \* SpecClient: position of the reader
    bleak_client,    \* SpecClient: client._client: "None", or a BleakClient
                     \* "unconnected" or "connected"
    client_protocol, \* SpecClient: client._protocol is not None
    client_driver,   \* SpecClient: client._device_driver is not None
    pending_error,   \* SpecClient: the exception on its way out of the reader's try
    ble_disconnect,  \* SpecClient history: how BleakClient.disconnect ended in
                     \* client.disconnect
    disconnects      \* SpecClient history: calls of client.disconnect

ledgerVars == <<db, lastCall, filterOut, markedAny, markedG, markedM, raised>>
concVars == <<opc, orecs, oidx, onew, omarks>>
syncVars == <<pc, cmd, args, init_ok, bridge_garmin, bridge_mqtt, running,
              exit_code, call, device, sync_records, new_records, summary, garminRemote, mqttBus,
              garminLog, mqttLog, sessions, db0, cycle, prev, slept>>
daemonVars == <<slept>>
protoVars == <<caller, config, driver_args, settings, read_args, program, ip, ppc,
               rx_notify_enabled, rx_finished, rx_packet_type, rx_eeprom_address,
               rx_data_bytes, rx_last, handed, sleep_parity, retries,
               current_timeout, ch_idx, tx_log, wire, session, written, outcome,
               returned, read_data, rx_rejected>>
fnVars == <<fn_in, fn_out>>
rxVars == <<rx_channel_buffer, rx_frame, rx_air, rx_order, rx_sent, rx_emitted,
           rx_raises>>
clientVars == <<reader, mac_given, reader_args, cpc, bleak_client, client_protocol,
               client_driver, pending_error, ble_disconnect, disconnects>>
auxVars == <<fnVars, rxVars, clientVars>>
vars == <<ledgerVars, concVars, syncVars, protoVars, auxVars>>

Orchs == {1, 2}

(***************************************************************************)
(* DuplicateFilter (src/src/duplicate_filter.py).                          *)
(***************************************************************************)
\* CREATE TABLE ... record_hash TEXT UNIQUE NOT NULL
record_hash_UNIQUE == TRUE

EmptyDb == [rows |-> {}, seq |-> 0]

RowsOf(d, h) == {row \in d.rows : row.record_hash = h}

\* an INSERT of fingerprint h meets the UNIQUE index
Conflict(d, h) == record_hash_UNIQUE /\ RowsOf(d, h) # {}

NewRow(id, r, garmin, mqtt) ==
    [id |-> id, record_hash |-> record_hash(r), timestamp |-> r.timestamp,
     systolic |-> r.systolic, diastolic |-> r.diastolic, pulse |-> r.pulse,
     irregular_heartbeat |-> r.irregular_heartbeat,
     body_movement |-> r.body_movement, user_slot |-> r.user_slot,
     category |-> category(r),
     garmin_uploaded |-> garmin, mqtt_published |-> mqtt]

\* mutant: the lookup compares the timestamp column instead of the fingerprint
is_duplicate_by_timestamp(d, r) ==
    \E row \in d.rows : row.timestamp = r.timestamp

is_duplicate(d, r) == RowsOf(d, record_hash(r)) # {}

filter_new_records(d, records) ==
    SelectSeq(records, LAMBDA r : ~is_duplicate(d, r))

\* mutant: DO UPDATE SET flag = excluded.flag (the stored flag is overwritten)
mark_as_uploaded_overwrite(d, r, garmin, mqtt) ==
    IF Conflict(d, record_hash(r))
    THEN [db |-> [d EXCEPT !.rows =
                    {IF row.record_hash = record_hash(r)
                     THEN [row EXCEPT !.garmin_uploaded = garmin,
                                      !.mqtt_published = mqtt]
                     ELSE row : row \in d.rows}],
          raised |-> FALSE]
    ELSE [db |-> [rows |-> d.rows \cup {NewRow(d.seq + 1, r, garmin, mqtt)},
                  seq |-> d.seq + 1],
          raised |-> FALSE]

\* mutant: the INSERT never meets a conflict (no unique index is consulted)
mark_as_uploaded_always_insert(d, r, garmin, mqtt) ==
    [db |-> [rows |-> d.rows \cup {NewRow(d.seq + 1, r, garmin, mqtt)},
             seq |-> d.seq + 1],
     raised |-> FALSE]

\* mutant: a plain INSERT without the ON CONFLICT clause: a known fingerprint
\* raises IntegrityError and the statement changes nothing
mark_as_uploaded_plain_insert(d, r, garmin, mqtt) ==
    IF Conflict(d, record_hash(r))
    THEN [db |-> d, raised |-> TRUE]
    ELSE [db |-> [rows |-> d.rows \cup {NewRow(d.seq + 1, r, garmin, mqtt)},
                  seq |-> d.seq + 1],
          raised |-> FALSE]

\* INSERT ... ON CONFLICT(record_hash) DO UPDATE SET flag = flag OR excluded.flag
\* result: the table afterwards, and whether the statement raised
mark_as_uploaded(d, r, garmin, mqtt) ==
    IF Conflict(d, record_hash(r))
    THEN [db |-> [d EXCEPT !.rows =
                    {IF row.record_hash = record_hash(r)
                     THEN [row EXCEPT !.garmin_uploaded = @ \/ garmin,
                                      !.mqtt_published = @ \/ mqtt]
                     ELSE row : row \in d.rows}],
          raised |-> FALSE]
    ELSE [db |-> [rows |-> d.rows \cup {NewRow(d.seq + 1, r, garmin, mqtt)},
                  seq |-> d.seq + 1],
          raised |-> FALSE]

\* UPDATE uploaded_records SET <the flags given> WHERE record_hash = ?
update_upload_status(d, r, garmin, mqtt) ==
    IF garmin = None /\ mqtt = None THEN d
    ELSE [d EXCEPT !.rows =
            {IF row.record_hash = record_hash(r)
             THEN [row EXCEPT
                     !.garmin_uploaded = IF garmin = None THEN @ ELSE garmin[1],
                     !.mqtt_published = IF mqtt = None THEN @ ELSE mqtt[1]]
             ELSE row : row \in d.rows}]

\* rows in ascending timestamp order (ties in rowid order), as a sequence
RECURSIVE OrderByTimestamp(_)
OrderByTimestamp(rows) ==
    IF rows = {} THEN <<>>
    ELSE LET first == CHOOSE row \in rows : \A o \in rows :
                          \/ row.timestamp < o.timestamp
                          \/ row.timestamp = o.timestamp /\ row.id <= o.id
         IN <<first>> \o OrderByTimestamp(rows \ {first})

Limit(s, n) == SubSeq(s, 1, IF Len(s) < n THEN Len(s) ELSE n)

get_pending_garmin(d, limit) ==
    Limit(OrderByTimestamp({row \in d.rows : ~row.garmin_uploaded}), limit)

get_pending_mqtt(d, limit) ==
    Limit(OrderByTimestamp({row \in d.rows : ~row.mqtt_published}), limit)

(***************************************************************************)
(* SpecLedger: one caller, the API in any order.                           *)
(***************************************************************************)
NoCall == [op |-> "none"]

InitLedgerVars ==
    /\ db = EmptyDb
    /\ lastCall = NoCall
    /\ filterOut = <<>>
    /\ markedAny = {}
    /\ markedG = {}
    /\ markedM = {}
    /\ raised = 0

InitConcVars ==
    /\ opc = [p \in Orchs |-> "idle"]
    /\ orecs = [p \in Orchs |-> <<>>]
    /\ oidx = [p \in Orchs |-> 0]
    /\ onew = [p \in Orchs |-> <<>>]
    /\ omarks = [p \in Orchs |-> 0]

Summary0 ==
    [device_records |-> 0, new_records |-> 0,
     garmin |-> [uploaded |-> 0, skipped |-> 0, failed |-> 0],
     mqtt |-> [success |-> 0, failed |-> 0],
     errors |-> <<>>]

NoPrev == [cycle |-> 0]

InitSyncVars ==
    /\ pc = "start"
    /\ cmd = "none"
    /\ args = [garmin_only |-> FALSE, mqtt_only |-> FALSE, dry_run |-> FALSE]
    /\ init_ok = [garmin |-> FALSE, mqtt |-> FALSE]
    /\ bridge_garmin = "None"
    /\ bridge_mqtt = "None"
    /\ running = FALSE
    /\ exit_code = -1
    /\ call = [garmin_enabled |-> TRUE, mqtt_enabled |-> TRUE, dry_run |-> FALSE]
    /\ device = <<>>
    /\ sync_records = <<>>
    /\ new_records = <<>>
    /\ summary = Summary0
    /\ garminRemote = {}
    /\ mqttBus = {}
    /\ garminLog = <<>>
    /\ mqttLog = <<>>
    /\ sessions = 0
    /\ db0 = EmptyDb
    /\ cycle = 0
    /\ prev = NoPrev
    /\ slept = 0

\* OmronBLEProtocol.__init__, no caller yet
NoRead == [start_address |-> 0, bytes_to_read |-> 0, block_size |-> 0]
NoFrame == [bytes |-> <<>>, answers |-> 0, via |-> "none"]
NoHandOver == [op |-> 0, answers |-> 0]

InitProtocol ==
    /\ rx_notify_enabled = FALSE
    /\ rx_finished = FALSE
    /\ rx_packet_type = None
    /\ rx_eeprom_address = None
    /\ rx_data_bytes = None
    /\ rx_last = NoFrame
    /\ handed = NoHandOver
    /\ sleep_parity = 0
    /\ retries = 0
    /\ current_timeout = 0
    /\ ch_idx = 0
    /\ tx_log = <<>>
    /\ wire = <<>>
    /\ session = "idle"
    /\ written = {}
    /\ outcome = "running"
    /\ returned = None
    /\ read_data = <<>>
    /\ rx_rejected = 0
    /\ ip = 1

\* no function applied
NotApplied == <<>>
InitFnVars ==
    /\ fn_in = <<>>
    /\ fn_out = NotApplied

\* OmronBLEProtocol.__init__: `self._rx_channel_buffer = [None] * 4`
NoBuffers == <<None, None, None, None>>
NoRxFrame == [bytes |-> <<>>, padded |-> FALSE, clean |-> TRUE]
InitRxVars ==
    /\ rx_channel_buffer = NoBuffers
    /\ rx_frame = NoRxFrame
    /\ rx_air = {}
    /\ rx_order = <<>>
    /\ rx_sent = 0
    /\ rx_emitted = <<>>
    /\ rx_raises = 0

\* OmronBLEClient.__init__: no link, no protocol, no driver
InitClientFields ==
    /\ bleak_client = "None"
    /\ client_protocol = FALSE
    /\ client_driver = FALSE
    /\ pending_error = "none"
    /\ ble_disconnect = "none"
    /\ disconnects = 0

\* nobody reads the device through a client
InitClientVars ==
    /\ InitClientFields
    /\ reader = "none"
    /\ mac_given = FALSE
    /\ reader_args = [only_new |-> FALSE, sync_time |-> FALSE]
    /\ cpc = "idle"

InitAuxVars == InitFnVars /\ InitRxVars /\ InitClientVars

\* a protocol object and nobody to call it
InitProtoIdle ==
    /\ InitProtocol
    /\ ppc = "call"
    /\ caller = "none"
    /\ config = [read_mode |-> "new_only", sync_time |-> TRUE]
    /\ driver_args = [use_unread_counter |-> FALSE, sync_time |-> FALSE]
    /\ settings = <<>>
    /\ read_args = NoRead
    /\ program = <<>>

InitProtoVars == InitProtoIdle /\ InitAuxVars

\* the state of everything but the function applied, in the specifications
\* of single functions
InitNoProgram ==
    InitLedgerVars /\ InitConcVars /\ InitSyncVars /\ InitProtoIdle
        /\ InitRxVars /\ InitClientVars


\* the history a mark_as_uploaded(r, garmin, mqtt) call leaves
MarkHistory(r, garmin, mqtt, res) ==
    /\ markedAny' = markedAny \cup {record_hash(r)}
    /\ markedG' = IF garmin THEN markedG \cup {record_hash(r)} ELSE markedG
    /\ markedM' = IF mqtt THEN markedM \cup {record_hash(r)} ELSE markedM
    /\ raised' = raised + (IF res.raised THEN 1 ELSE 0)

CallMarkAsUploaded ==
    \E r \in ApiReadings, garmin \in BOOLEAN, mqtt \in BOOLEAN :
        LET res == mark_as_uploaded(db, r, garmin, mqtt) IN
        /\ db' = res.db
        /\ markedAny' = markedAny \cup {record_hash(r)}
        /\ lastCall' = [op |-> "mark_as_uploaded", record |-> r,
                        garmin |-> Some(garmin), mqtt |-> Some(mqtt)]
        /\ filterOut' = <<>>
        /\ UNCHANGED <<markedG, markedM, raised, concVars, syncVars, protoVars, auxVars>>

CallUpdateUploadStatus ==
    \E r \in ApiReadings, garmin \in OptBool, mqtt \in OptBool :
        /\ db' = update_upload_status(db, r, garmin, mqtt)
        /\ lastCall' = [op |-> "update_upload_status", record |-> r,
                        garmin |-> garmin, mqtt |-> mqtt]
        /\ filterOut' = <<>>
        /\ UNCHANGED <<markedAny, markedG, markedM, raised, concVars, syncVars, protoVars, auxVars>>

CallFilterNewRecords ==
    \E records \in SeqsUpTo(ApiReadings, MaxLen) :
        /\ filterOut' = filter_new_records(db, records)
        /\ lastCall' = [op |-> "filter_new_records", records |-> records]
        /\ UNCHANGED <<db, markedAny, markedG, markedM, raised, concVars, syncVars, protoVars, auxVars>>

InitLedger == InitLedgerVars /\ InitConcVars /\ InitSyncVars /\ InitProtoVars

NextLedger ==
    \/ CallMarkAsUploaded
    \/ CallUpdateUploadStatus
    \/ CallFilterNewRecords

SpecLedger == InitLedger /\ [][NextLedger]_vars

(***************************************************************************)
(* SpecConc: two orchestrators on one ledger.  Both read the same records  *)
(* from the device; each runs filter_new_records (one SELECT per record,   *)
(* each a read of its own) and then calls mark_as_uploaded for readings of *)
(* its new_records.  The backing store serialises the statements.          *)
(***************************************************************************)
\* the lists of records the device can return
Max(a, b) == IF a > b THEN a ELSE b
Min(a, b) == IF a < b THEN a ELSE b
DeviceLists ==
    {SubSeq(DeviceOrder, 1, k) : k \in 0..Min(MaxRecords, Len(DeviceOrder))}

InitConc ==
    /\ InitLedgerVars
    /\ InitSyncVars
    /\ InitProtoVars
    /\ opc = [p \in Orchs |-> "idle"]
    /\ \E recs \in DeviceLists : orecs = [p \in Orchs |-> recs]
    /\ oidx = [p \in Orchs |-> 0]
    /\ onew = [p \in Orchs |-> <<>>]
    /\ omarks = [p \in Orchs |-> 0]

\* filter_new_records is entered: `if not records: return []`
OFilterEnter(p) ==
    /\ opc[p] = "idle"
    /\ opc' = [opc EXCEPT ![p] = IF orecs[p] = <<>> THEN "mark" ELSE "filter"]
    /\ oidx' = [oidx EXCEPT ![p] = 1]
    /\ onew' = [onew EXCEPT ![p] = <<>>]
    /\ UNCHANGED <<ledgerVars, orecs, omarks, syncVars, protoVars, auxVars>>

\* one turn of filter_new_records' loop: SELECT 1 ... WHERE record_hash = ?
OFilterSelect(p) ==
    /\ opc[p] = "filter"
    /\ LET r == orecs[p][oidx[p]] IN
       onew' = [onew EXCEPT ![p] = IF is_duplicate(db, r) THEN @ ELSE Append(@, r)]
    /\ oidx' = [oidx EXCEPT ![p] = @ + 1]
    /\ opc' = [opc EXCEPT ![p] = IF oidx[p] = Len(orecs[p]) THEN "mark" ELSE "filter"]
    /\ UNCHANGED <<ledgerVars, orecs, omarks, syncVars, protoVars, auxVars>>

\* mark_as_uploaded for one of the orchestrator's new records
OMark(p) ==
    /\ opc[p] = "mark"
    /\ omarks[p] < MaxMarks
    /\ \E i \in 1..Len(onew[p]), garmin \in BOOLEAN, mqtt \in BOOLEAN :
         LET res == mark_as_uploaded(db, onew[p][i], garmin, mqtt) IN
         /\ db' = res.db
         /\ MarkHistory(onew[p][i], garmin, mqtt, res)
    /\ omarks' = [omarks EXCEPT ![p] = @ + 1]
    /\ UNCHANGED <<lastCall, filterOut, opc, orecs, oidx, onew, syncVars, protoVars, auxVars>>

OFinish(p) ==
    /\ opc[p] = "mark"
    /\ opc' = [opc EXCEPT ![p] = "done"]
    /\ UNCHANGED <<ledgerVars, orecs, oidx, onew, omarks, syncVars, protoVars, auxVars>>

NextConc ==
    \/ \E p \in Orchs : OFilterEnter(p)
    \/ \E p \in Orchs : OFilterSelect(p)
    \/ \E p \in Orchs : OMark(p)
    \/ \E p \in Orchs : OFinish(p)

SpecConc == InitConc /\ [][NextConc]_vars

(***************************************************************************)
(* Sinks, as far as the orchestrator drives them.                          *)
(***************************************************************************)
\* what Garmin Connect keeps of an uploaded reading
Measurement(r) ==
    [timestamp |-> r.timestamp, systolic |-> r.systolic,
     diastolic |-> r.diastolic, pulse |-> r.pulse]

Abs(x) == IF x < 0 THEN -x ELSE x

\* GarminUploader.is_duplicate_in_garmin over parsed remote measurements
is_duplicate_in_garmin(reading, existing_readings) ==
    \E existing \in existing_readings :
        /\ Abs(reading.timestamp - existing.timestamp) <= 60
        /\ existing.systolic = reading.systolic
        /\ existing.diastolic = reading.diastolic
        /\ existing.pulse = reading.pulse

\* the outcomes before the first failed one, and that one
RECURSIVE UpToFirstFailure(_)
UpToFirstFailure(outcomes) ==
    IF outcomes = <<>> THEN <<>>
    ELSE IF Head(outcomes) = "failed" THEN <<"failed">>
    ELSE <<Head(outcomes)>> \o UpToFirstFailure(Tail(outcomes))

\* mutant: the loop over the readings ends at the first failed upload
upload_readings_stop_at_failure(readings, existing_readings, accepted) ==
    UpToFirstFailure(
        [i \in 1..Len(readings) |->
            IF is_duplicate_in_garmin(readings[i], existing_readings) THEN "skipped"
            ELSE IF accepted[i] THEN "uploaded"
            ELSE "failed"])

\* GarminUploader.upload_readings: the outcome of each reading, in order.
\* existing_readings is fetched once, before the loop; accepted[i] tells
\* whether set_blood_pressure for readings[i] returns (or raises).
upload_readings(readings, existing_readings, accepted) ==
    [i \in 1..Len(readings) |->
        IF is_duplicate_in_garmin(readings[i], existing_readings) THEN "skipped"
        ELSE IF accepted[i] THEN "uploaded"
        ELSE "failed"]

\* MQTTPublisher.publish_readings: the outcome of each reading, in order
publish_readings(readings, accepted) ==
    [i \in 1..Len(readings) |-> IF accepted[i] THEN "success" ELSE "failed"]

Count(outcomes, what) ==
    Cardinality({i \in 1..Len(outcomes) : outcomes[i] = what})

\* the outcomes when the sink is not initialised and nothing is pushed
NotPushed(readings) == [i \in 1..Len(readings) |-> "not_pushed"]

\* mark_as_uploaded for each record of a list, in order
RECURSIVE mark_each(_, _, _, _)
mark_each(d, recs, to_garmin, to_mqtt) ==
    IF recs = <<>> THEN d
    ELSE mark_each(mark_as_uploaded(d, Head(recs), to_garmin, to_mqtt).db,
                   Tail(recs), to_garmin, to_mqtt)

\* `for record in records[:uploaded]` of upload_to_garmin
garmin_records_to_mark(recs, uploaded) == SubSeq(recs, 1, uploaded)

\* `for record in records[:success]` of publish_to_mqtt
mqtt_records_to_mark(recs, success) == SubSeq(recs, 1, success)

(***************************************************************************)
(* Spec: the commands cmd_sync and cmd_daemon, and OmronGarminBridge.sync. *)
(* A command starts with a fresh bridge; the ledger, the device and the    *)
(* sinks' contents outlive it.  Status messages to the broker and the      *)
(* time-sync write to the device are left out.                             *)
(***************************************************************************)
InCycle == pc \in {"read", "filter", "garmin", "mqtt", "end"}

\* sync() is entered: the fresh summary
EnterSync(garmin_enabled, mqtt_enabled, dry_run) ==
    /\ pc' = "read"
    /\ call' = [garmin_enabled |-> garmin_enabled, mqtt_enabled |-> mqtt_enabled,
                dry_run |-> dry_run]
    /\ summary' = Summary0
    /\ sync_records' = <<>>
    /\ new_records' = <<>>
    /\ garminLog' = <<>>
    /\ mqttLog' = <<>>
    /\ db0' = db
    /\ cycle' = cycle + 1

\* a command starts: a new OmronGarminBridge
NewBridge(name, garmin_only, mqtt_only, dry_run) ==
    /\ pc \in {"start", "exit"}
    /\ cycle < MaxCycles
    /\ cmd' = name
    /\ args' = [garmin_only |-> garmin_only, mqtt_only |-> mqtt_only,
                dry_run |-> dry_run]
    /\ exit_code' = -1
    /\ sessions' = 0
    /\ slept' = 0

\* _init_garmin: "None" when disabled in the config, "logged_out" when
\* login() raises, "logged_in" otherwise;  _init_mqtt alike
SinkStates == {"None", "down", "up"}
GarminState(st) ==
    IF st = "None" THEN "None" ELSE IF st = "up" THEN "logged_in" ELSE "logged_out"
MqttState(st) ==
    IF st = "None" THEN "None" ELSE IF st = "up" THEN "connected" ELSE "disconnected"

\* cmd_sync's check after the two _init calls
no_services(garmin_ok, mqtt_ok, dry_run) == ~garmin_ok /\ ~mqtt_ok /\ ~dry_run

\* cleanup(): disconnect, logout
Cleanup ==
    /\ bridge_garmin' = IF bridge_garmin = "None" THEN "None" ELSE "logged_out"
    /\ bridge_mqtt' = IF bridge_mqtt = "None" THEN "None" ELSE "disconnected"

CmdSync ==
    \E garmin_only \in BOOLEAN, mqtt_only \in BOOLEAN, dry_run \in BOOLEAN,
       g \in SinkStates, m \in SinkStates :
        LET gst == IF mqtt_only THEN "None" ELSE GarminState(g)
            mst == IF garmin_only THEN "None" ELSE MqttState(m)
            garmin_ok == gst = "logged_in"
            mqtt_ok == mst = "connected"
        IN
        /\ NewBridge("sync", garmin_only, mqtt_only, dry_run)
        /\ init_ok' = [garmin |-> garmin_ok, mqtt |-> mqtt_ok]
        /\ running' = FALSE
        /\ IF no_services(garmin_ok, mqtt_ok, dry_run)
           THEN \* "No services available for sync": return 1, then cleanup
                /\ pc' = "exit"
                /\ exit_code' = 1
                /\ bridge_garmin' = IF gst = "None" THEN "None" ELSE "logged_out"
                /\ bridge_mqtt' = IF mst = "None" THEN "None" ELSE "disconnected"
                /\ db0' = db
                /\ garminLog' = <<>>
                /\ mqttLog' = <<>>
                /\ UNCHANGED <<call, summary, sync_records, new_records, cycle>>
           ELSE /\ bridge_garmin' = gst
                /\ bridge_mqtt' = mst
                /\ EnterSync(~mqtt_only, ~garmin_only, dry_run)
        /\ UNCHANGED <<ledgerVars, concVars, protoVars, auxVars, device, garminRemote, mqttBus, prev>>

CmdDaemon ==
    \E g \in SinkStates, m \in SinkStates :
        /\ NewBridge("daemon", FALSE, FALSE, FALSE)
        /\ init_ok' = [garmin |-> GarminState(g) = "logged_in",
                       mqtt |-> MqttState(m) = "connected"]
        /\ bridge_garmin' = GarminState(g)
        /\ bridge_mqtt' = MqttState(m)
        /\ running' = TRUE
        /\ pc' = "loop"
        /\ db0' = db
        /\ garminLog' = <<>>
        /\ mqttLog' = <<>>
        /\ UNCHANGED <<ledgerVars, concVars, protoVars, auxVars, call, summary, sync_records,
                       new_records, cycle, device, garminRemote, mqttBus, prev>>

\* run_daemon: `while self._running:` starts the next cycle
DaemonCycle ==
    /\ pc = "loop"
    /\ running
    /\ cycle < MaxCycles
    /\ EnterSync(TRUE, TRUE, FALSE)
    /\ UNCHANGED <<ledgerVars, concVars, protoVars, auxVars, cmd, args, init_ok, bridge_garmin,
                   bridge_mqtt, running, exit_code, device, garminRemote,
                   mqttBus, sessions, prev, daemonVars>>

\* run_daemon: the loop ends, cmd_daemon returns 0 and cleans up
DaemonStop ==
    /\ pc = "loop"
    /\ ~running
    /\ pc' = "exit"
    /\ exit_code' = 0
    /\ Cleanup
    /\ UNCHANGED <<ledgerVars, concVars, protoVars, auxVars, cmd, args, init_ok, running, call,
                   device, sync_records, new_records, summary, garminRemote,
                   mqttBus, garminLog, mqttLog, sessions, db0, cycle, prev, daemonVars>>

\* mutant: the sleep loop does not look at the flag
sleep_loop_never_breaks(running_flag) == FALSE

\* run_daemon's sleep loop: `if not self._running: break`
sleep_loop_breaks(running_flag) == ~running_flag

\* run_daemon: `for _ in range(interval_minutes * 60):` enters
\* `await asyncio.sleep(1)`
DaemonSleepStep ==
    /\ pc = "sleep"
    /\ slept < MaxSleepSteps
    /\ ~sleep_loop_breaks(running)
    /\ pc' = "sleeping"
    /\ UNCHANGED <<ledgerVars, concVars, protoVars, auxVars, cmd, args, init_ok, bridge_garmin,
                   bridge_mqtt, running, exit_code, call, device, sync_records,
                   new_records, summary, garminRemote, mqttBus, garminLog,
                   mqttLog, sessions, db0, cycle, prev, daemonVars>>

\* run_daemon: one asyncio.sleep(1) is over
DaemonSleepDone ==
    /\ pc = "sleeping"
    /\ pc' = "sleep"
    /\ slept' = slept + 1
    /\ UNCHANGED <<ledgerVars, concVars, protoVars, auxVars, cmd, args, init_ok, bridge_garmin,
                   bridge_mqtt, running, exit_code, call, device, sync_records,
                   new_records, summary, garminRemote, mqttBus, garminLog,
                   mqttLog, sessions, db0, cycle, prev>>

\* run_daemon: the sleep loop is left, by its break or at the end of its
\* range (and is not entered at all when `if self._running:` fails)
DaemonWake ==
    /\ pc = "sleep"
    /\ sleep_loop_breaks(running) \/ slept = MaxSleepSteps
    /\ pc' = "loop"
    /\ UNCHANGED <<ledgerVars, concVars, protoVars, auxVars, cmd, args, init_ok, bridge_garmin,
                   bridge_mqtt, running, exit_code, call, device, sync_records,
                   new_records, summary, garminRemote, mqttBus, garminLog,
                   mqttLog, sessions, db0, cycle, prev, daemonVars>>

\* handle_signal: SIGINT / SIGTERM while the daemon runs
HandleSignal ==
    /\ cmd = "daemon"
    /\ pc \notin {"start", "exit"}
    /\ running
    /\ running' = FALSE
    /\ UNCHANGED <<ledgerVars, concVars, protoVars, auxVars, pc, cmd, args, init_ok, bridge_garmin,
                   bridge_mqtt, exit_code, call, device, sync_records,
                   new_records, summary, garminRemote, mqttBus, garminLog,
                   mqttLog, sessions, db0, cycle, prev, slept>>

\* MQTTPublisher._on_disconnect: the broker connection drops
MqttDisconnect ==
    /\ bridge_mqtt = "connected"
    /\ bridge_mqtt' = "disconnected"
    /\ UNCHANGED <<ledgerVars, concVars, protoVars, auxVars, pc, cmd, args, init_ok, bridge_garmin,
                   running, exit_code, call, device, sync_records, new_records,
                   summary, garminRemote, mqttBus, garminLog, mqttLog, sessions,
                   db0, cycle, prev, daemonVars>>

\* the user takes a measurement: the device stores one more record.  The
\* program sees the device only in read_from_device, so measurements are
\* placed between cycles.
Measure ==
    /\ ~InCycle
    /\ Len(device) < Min(MaxRecords, Len(DeviceOrder))
    /\ device' = Append(device, DeviceOrder[Len(device) + 1])
    /\ UNCHANGED <<ledgerVars, concVars, protoVars, auxVars, pc, cmd, args, init_ok, bridge_garmin,
                   bridge_mqtt, running, exit_code, call, sync_records,
                   new_records, summary, garminRemote, mqttBus, garminLog,
                   mqttLog, sessions, db0, cycle, prev, daemonVars>>

\* sync: read_from_device, `if not records: return summary`.  The read
\* fails before the connection is made, fails after it, or delivers.
SyncRead ==
    /\ pc = "read"
    /\ \E result \in {"connect_failed", "read_failed", "ok"} :
         /\ sessions' = IF result = "connect_failed" THEN sessions ELSE sessions + 1
         /\ IF result = "ok"
            THEN /\ sync_records' = device
                 /\ summary' = [summary EXCEPT !.device_records = Len(device)]
                 /\ pc' = IF device = <<>> THEN "end" ELSE "filter"
            ELSE \* `except Exception as e: summary["errors"].append(str(e))`
                 /\ summary' = [summary EXCEPT !.errors = Append(@, result)]
                 /\ pc' = "end"
                 /\ UNCHANGED sync_records
    /\ UNCHANGED <<ledgerVars, concVars, protoVars, auxVars, cmd, args, init_ok, bridge_garmin,
                   bridge_mqtt, running, exit_code, call, device, new_records,
                   garminRemote, mqttBus, garminLog, mqttLog, db0, cycle, prev, daemonVars>>

\* mutant: the dry-run return is missing
sync_after_filter_no_dry_run(candidates, dry_run) ==
    IF candidates = <<>> THEN "end" ELSE "garmin"

\* sync: where it goes after filtering: `if not new_records: return summary`,
\* `if dry_run: return summary`, else on to the sinks
sync_after_filter(candidates, dry_run) ==
    IF candidates = <<>> THEN "end"
    ELSE IF dry_run THEN "end"
    ELSE "garmin"

SyncFilter ==
    /\ pc = "filter"
    /\ new_records' = filter_new_records(db, sync_records)
    /\ summary' = [summary EXCEPT !.new_records = Len(new_records')]
    /\ pc' = sync_after_filter(new_records', call.dry_run)
    /\ UNCHANGED <<ledgerVars, concVars, protoVars, auxVars, cmd, args, init_ok, bridge_garmin,
                   bridge_mqtt, running, exit_code, call, device, sync_records,
                   garminRemote, mqttBus, garminLog, mqttLog, sessions, db0,
                   cycle, prev, daemonVars>>

\* sync: `if garmin_enabled:` upload_to_garmin(new_records)
SyncGarmin ==
    /\ pc = "garmin"
    /\ pc' = "mqtt"
    /\ IF ~call.garmin_enabled
       THEN UNCHANGED <<db, summary, garminRemote, garminLog>>
       ELSE IF bridge_garmin # "logged_in"
       THEN \* "Garmin not initialized, skipping upload": (0, 0, len(records))
            /\ garminLog' = NotPushed(new_records)
            /\ summary' = [summary EXCEPT !.garmin.failed = Len(new_records)]
            /\ UNCHANGED <<db, garminRemote>>
       ELSE \E fetched \in BOOLEAN, accepted \in [1..Len(new_records) -> BOOLEAN] :
            LET existing_readings == IF fetched THEN garminRemote ELSE {}
                out == upload_readings(new_records, existing_readings, accepted)
                uploaded == Count(out, "uploaded")
                skipped == Count(out, "skipped")
                to_mark == garmin_records_to_mark(new_records, uploaded)
            IN
            /\ garminLog' = out
            /\ garminRemote' = garminRemote \cup
                 {Measurement(new_records[i]) :
                    i \in {j \in 1..Len(out) : out[j] = "uploaded"}}
            /\ \E marked \in 0..Len(to_mark) :
                 /\ db' = mark_each(db, SubSeq(to_mark, 1, marked), TRUE, FALSE)
                 /\ IF marked = Len(to_mark)
                    THEN summary' = [summary EXCEPT
                           !.garmin = [uploaded |-> uploaded, skipped |-> skipped,
                                       failed |-> Len(new_records) - uploaded - skipped]]
                    ELSE \* the ledger write of record marked + 1 raises:
                         \* `except Exception as e: summary["errors"].append(f"Garmin: {e}")`
                         summary' = [summary EXCEPT !.errors = Append(@, "Garmin")]
    /\ UNCHANGED <<lastCall, filterOut, markedAny, markedG, markedM, raised,
                   concVars, protoVars, auxVars, cmd, args, init_ok, bridge_garmin, bridge_mqtt,
                   running, exit_code, call, device, sync_records, new_records,
                   mqttBus, mqttLog, sessions, db0, cycle, prev, daemonVars>>

\* sync: `if mqtt_enabled:` publish_to_mqtt(new_records)
SyncMqtt ==
    /\ pc = "mqtt"
    /\ pc' = "end"
    /\ IF ~call.mqtt_enabled
       THEN UNCHANGED <<db, summary, mqttBus, mqttLog>>
       ELSE IF bridge_mqtt # "connected"
       THEN \* "MQTT not connected, skipping publish": (0, len(records))
            /\ mqttLog' = NotPushed(new_records)
            /\ summary' = [summary EXCEPT !.mqtt.failed = Len(new_records)]
            /\ UNCHANGED <<db, mqttBus>>
       ELSE \E accepted \in [1..Len(new_records) -> BOOLEAN] :
            LET out == publish_readings(new_records, accepted)
                success == Count(out, "success")
                to_mark == mqtt_records_to_mark(new_records, success)
            IN
            /\ mqttLog' = out
            /\ mqttBus' = mqttBus \cup
                 {new_records[i] : i \in {j \in 1..Len(out) : out[j] = "success"}}
            /\ \E marked \in 0..Len(to_mark) :
                 /\ db' = mark_each(db, SubSeq(to_mark, 1, marked), FALSE, TRUE)
                 /\ IF marked = Len(to_mark)
                    THEN summary' = [summary EXCEPT
                           !.mqtt = [success |-> success,
                                     failed |-> Count(out, "failed")]]
                    ELSE \* `except Exception as e: summary["errors"].append(f"MQTT: {e}")`
                         summary' = [summary EXCEPT !.errors = Append(@, "MQTT")]
    /\ UNCHANGED <<lastCall, filterOut, markedAny, markedG, markedM, raised,
                   concVars, protoVars, auxVars, cmd, args, init_ok, bridge_garmin, bridge_mqtt,
                   running, exit_code, call, device, sync_records, new_records,
                   garminRemote, garminLog, sessions, db0, cycle, prev, daemonVars>>

\* read_from_device raised in this sync() call
ReadFailed(errors) ==
    \E i \in 1..Len(errors) : errors[i] \in {"connect_failed", "read_failed"}

\* mutant: cmd_sync returns 0 whatever the summary holds
cmd_sync_exit_code_always_zero(errors) == 0

\* cmd_sync: `return 0 if not summary["errors"] else 1`
cmd_sync_exit_code(errors) == IF errors = <<>> THEN 0 ELSE 1

\* sync returns its summary: cmd_sync exits (0 without errors, else 1) and
\* cleans up; run_daemon goes to sleep.  The caller prints the summary and
\* drops it, and sync's locals are gone.
SyncEnd ==
    /\ pc = "end"
    /\ prev' = [cycle |-> cycle, records |-> sync_records,
                read_ok |-> ~ReadFailed(summary.errors), dry_run |-> call.dry_run,
                errors |-> summary.errors]
    /\ IF cmd = "sync"
       THEN /\ pc' = "exit"
            /\ exit_code' = cmd_sync_exit_code(summary.errors)
            /\ Cleanup
            /\ UNCHANGED slept
       ELSE /\ pc' = "sleep"
            /\ slept' = 0
            /\ UNCHANGED <<exit_code, bridge_garmin, bridge_mqtt>>
    /\ summary' = Summary0
    /\ sync_records' = <<>>
    /\ new_records' = <<>>
    /\ garminLog' = <<>>
    /\ mqttLog' = <<>>
    /\ db0' = db
    /\ UNCHANGED <<ledgerVars, concVars, protoVars, auxVars, cmd, args, init_ok, running, call,
                   device, garminRemote, mqttBus, sessions, cycle>>

Init == InitLedgerVars /\ InitConcVars /\ InitSyncVars /\ InitProtoVars

Next ==
    \/ CmdSync
    \/ CmdDaemon
    \/ DaemonCycle
    \/ DaemonStop
    \/ DaemonSleepStep
    \/ DaemonSleepDone
    \/ DaemonWake
    \/ HandleSignal
    \/ MqttDisconnect
    \/ Measure
    \/ SyncRead
    \/ SyncFilter
    \/ SyncGarmin
    \/ SyncMqtt
    \/ SyncEnd

Spec == Init /\ [][Next]_vars

(***************************************************************************)
(* SpecProto: OmronBLEProtocol (the transport and the session verbs) and   *)
(* BaseOmronDevice.get_all_records with the constants of HEM7361T.         *)
(* Bytes are naturals below 256, byte strings are sequences.  A frame is   *)
(* delivered to _rx_callback whole; its split over the RX channels is left *)
(* out here.                                                               *)
(***************************************************************************)
RECURSIVE BitXor(_, _)
\* a ^ b
BitXor(a, b) ==
    IF a = 0 THEN b
    ELSE IF b = 0 THEN a
    ELSE (((a % 2) + (b % 2)) % 2) + 2 * BitXor(a \div 2, b \div 2)

\* the number of bytes of data whose bit k is set
OnesAt(data, k) ==
    Cardinality({i \in 1..Len(data) : (data[i] \div (2 ^ k)) % 2 = 1})

\* `xor_crc = 0; for byte in data: xor_crc ^= byte`: bit k of the result is
\* the parity of the bits k of the bytes
xor_crc(data) ==
    (OnesAt(data, 0) % 2) + 2 * (OnesAt(data, 1) % 2)
    + 4 * (OnesAt(data, 2) % 2) + 8 * (OnesAt(data, 3) % 2)
    + 16 * (OnesAt(data, 4) % 2) + 32 * (OnesAt(data, 5) % 2)
    + 64 * (OnesAt(data, 6) % 2) + 128 * (OnesAt(data, 7) % 2)

\* data[a:b] of Python
Slice(data, a, b) == SubSeq(data, a + 1, Min(b, Len(data)))

\* bytes([b]) * n
Repeat(b, n) == [i \in 1..n |-> b]

\* address.to_bytes(2, "big")
address_bytes(address) == <<address \div 256, address % 256>>

\* bytearray.fromhex("0800000000100018")
start_cmd == <<8, 0, 0, 0, 0, 16, 0, 24>>

\* bytearray.fromhex("080f000000000007")
stop_cmd == <<8, 15, 0, 0, 0, 0, 0, 7>>

\* read_eeprom_block: the command
read_cmd(address, block_size) ==
    LET head == <<8, 1, 0>> \o address_bytes(address) \o <<block_size>>
    IN head \o <<0, xor_crc(head)>>

\* write_eeprom_block's command with the payload's length as byte 0
write_cmd_length_of_payload(address, data) ==
    LET head == <<Len(data), 1, 192>> \o address_bytes(address)
                  \o <<Len(data)>> \o data
    IN head \o <<0, xor_crc(head)>>

\* write_eeprom_block: the command
write_cmd(address, data) ==
    LET head == <<Len(data) + 8, 1, 192>> \o address_bytes(address)
                  \o <<Len(data)>> \o data
    IN head \o <<0, xor_crc(head)>>

\* _send_and_wait: `range((len(command) + 15) // 16)`
required_tx_channels(command) == (Len(command) + 15) \div 16

\* the packet types the session verbs expect
TYPE_START == <<128, 0>>
TYPE_END == <<143, 0>>
TYPE_READ == <<129, 0>>
TYPE_WRITE == <<129, 192>>
\* unlock_with_key: bytearray.fromhex("8100")
UNLOCK_OK == <<129, 0>>

\* _rx_callback without its "Verify CRC" step
rx_callback_no_crc_check(combined_rx) ==
    IF Len(combined_rx) < 6
    THEN [raised |-> TRUE, packet_type |-> <<>>, eeprom_address |-> <<>>,
          data_bytes |-> <<>>]
    ELSE LET expected_data_bytes == combined_rx[6]
             packet_type == Slice(combined_rx, 1, 3)
         IN [raised |-> FALSE,
             packet_type |-> packet_type,
             eeprom_address |-> Slice(combined_rx, 3, 5),
             data_bytes |->
                IF expected_data_bytes > Len(combined_rx) - 8
                THEN Repeat(255, expected_data_bytes)
                ELSE IF packet_type = TYPE_END
                THEN Slice(combined_rx, 6, 7)
                ELSE Slice(combined_rx, 6, 6 + expected_data_bytes)]

\* _rx_callback from "Verify CRC" on: what a combined frame leaves in the
\* protocol's fields, or that the callback raises (a CRC that is not 0; a
\* frame too short to hold byte 5)
rx_callback(combined_rx) ==
    IF Len(combined_rx) < 6 \/ xor_crc(combined_rx) # 0
    THEN [raised |-> TRUE, packet_type |-> <<>>, eeprom_address |-> <<>>,
          data_bytes |-> <<>>]
    ELSE LET expected_data_bytes == combined_rx[6]
             packet_type == Slice(combined_rx, 1, 3)
         IN [raised |-> FALSE,
             packet_type |-> packet_type,
             eeprom_address |-> Slice(combined_rx, 3, 5),
             data_bytes |->
                IF expected_data_bytes > Len(combined_rx) - 8
                THEN Repeat(255, expected_data_bytes)
                ELSE IF packet_type = TYPE_END
                THEN Slice(combined_rx, 6, 7)
                ELSE Slice(combined_rx, 6, 6 + expected_data_bytes)]

(***************************************************************************)
(* The device, as far as the protocol can tell: the frames it may send in  *)
(* answer to a command.  Byte 0 is the length, bytes 1-2 the type, 3-4 the  *)
(* address, 5 the number of payload bytes, the last byte the XOR of the    *)
(* others.                                                                 *)
(***************************************************************************)
WithCrc(body) == body \o <<xor_crc(body)>>

response(packet_type, address, declared, data) ==
    WithCrc(<<Len(data) + 8>> \o packet_type \o address_bytes(address)
            \o <<declared>> \o data \o <<0>>)

\* the end-of-transmission answer: the error code is byte 6
end_response(declared, error_code) ==
    WithCrc(<<8>> \o TYPE_END \o <<0, 0, declared, error_code>>)

\* a frame with one bit of its last byte flipped on the way
corrupted(frame) ==
    [i \in 1..Len(frame) |->
        IF i = Len(frame) THEN BitXor(frame[i], 1) ELSE frame[i]]

\* a frame of a type no verb expects
unknown_response(address) == response(<<0, 0>>, address, 0, <<>>)

\* HEM7361T
user_start_addresses == <<152, 1752>>
record_byte_size == 16
transmission_block_size == 16
settings_read_address == 16
settings_write_address == 84
settings_unread_records_bytes == <<0, 16>>
settings_time_sync_bytes == <<44, 60>>
\* records_per_user of HEM7361T is [100, 100]; the rings are cut to MaxRingSlots
records_per_user == <<MaxRingSlots, MaxRingSlots>>
Users == 1..Len(user_start_addresses)

\* the unread-records section of the settings, from each user's
\* [last_slot, unread]: byte 2u is last_slot of user u, byte 2u + 4 its
\* unread count (_get_unread_records_commands reads them back from there)
UnreadSection(info) ==
    <<info[1].last_slot, 0, info[2].last_slot, 0,
      info[1].unread, 0, info[2].unread, 0>> \o Repeat(0, 8)

\* the time-sync section of the settings as the device holds it
TimeSection == Repeat(0, 16)

\* what the device holds at an address: the two settings sections, and
\* elsewhere, in each byte, the low byte of its address
Eeprom(info, address, size) ==
    IF address = settings_read_address + settings_unread_records_bytes[1]
    THEN Slice(UnreadSection(info), 0, size)
    ELSE IF address = settings_read_address + settings_time_sync_bytes[1]
    THEN Slice(TimeSection, 0, size)
    ELSE [i \in 1..size |-> (address + i - 1) % 256]

\* the frames the device may send when it has received a command
DeviceResponses(info, command) ==
    LET opcode == Slice(command, 1, 3)
        address == command[4] * 256 + command[5]
        size == command[6]
    IN  CASE opcode = <<0, 0>> ->
               {response(TYPE_START, 0, 0, <<>>), unknown_response(0),
                corrupted(response(TYPE_START, 0, 0, <<>>))}
          [] opcode = <<1, 0>> ->
               {response(TYPE_READ, address, size, Eeprom(info, address, size)),
                response(TYPE_READ, address + 1, size, Eeprom(info, address, size)),
                unknown_response(address),
                corrupted(response(TYPE_READ, address, size,
                                   Eeprom(info, address, size))),
                \* the payload is cut off; one byte less than asked for
                response(TYPE_READ, address, size, <<>>),
                response(TYPE_READ, address, size - 1,
                         Eeprom(info, address, size - 1))}
          [] opcode = <<1, 192>> ->
               {response(TYPE_WRITE, address, 0, <<>>),
                response(TYPE_WRITE, address + 1, 0, <<>>),
                unknown_response(address)}
          [] opcode = <<15, 0>> ->
               {end_response(0, 0), end_response(0, 1), end_response(1, 0),
                unknown_response(0)}
          [] OTHER -> {}

\* the indications the device may send on the unlock characteristic
UnlockIndications == {UNLOCK_OK, <<129, 1>>, <<1, 0>>, <<>>}

(***************************************************************************)
(* The calls to the protocol.  A call is a verb with its arguments; the    *)
(* driver's calls are those get_all_records makes when nothing fails.      *)
(***************************************************************************)
Call(verb, address, size, data) ==
    [verb |-> verb, address |-> address, size |-> size, data |-> data]

UnlockCall == Call("unlock", 0, 0, <<>>)
StartCall == Call("start", 0, 0, <<>>)
EndCall == Call("end", 0, 0, <<>>)
ReadCall(address, size) == Call("read", address, size, <<>>)
WriteCall(address, data) == Call("write", address, Len(data), data)

RECURSIVE read_continuous(_, _, _)
\* read_continuous: the read_eeprom_block calls, in order
read_continuous(start_address, bytes_to_read, block_size) ==
    IF bytes_to_read <= 0 THEN <<>>
    ELSE LET next_block_size == Min(bytes_to_read, block_size)
         IN <<ReadCall(start_address, next_block_size)>>
            \o read_continuous(start_address + next_block_size,
                               bytes_to_read - next_block_size, block_size)

RECURSIVE write_continuous(_, _, _)
\* write_continuous: the write_eeprom_block calls, in order
write_continuous(start_address, data, block_size) ==
    IF Len(data) <= 0 THEN <<>>
    ELSE LET next_block_size == Min(Len(data), block_size)
         IN <<WriteCall(start_address, Slice(data, 0, next_block_size))>>
            \o write_continuous(start_address + next_block_size,
                                Slice(data, next_block_size, Len(data)),
                                block_size)

\* _cache_settings: the unread-records section, then the time-sync section
cache_settings ==
    read_continuous(settings_read_address + settings_unread_records_bytes[1],
                    settings_unread_records_bytes[2] - settings_unread_records_bytes[1],
                    settings_unread_records_bytes[2] - settings_unread_records_bytes[1])
    \o read_continuous(settings_read_address + settings_time_sync_bytes[1],
                       settings_time_sync_bytes[2] - settings_time_sync_bytes[1],
                       settings_time_sync_bytes[2] - settings_time_sync_bytes[1])

\* _get_all_records_commands: one command for each user's whole ring
get_all_records_commands ==
    [u \in Users |->
        <<[address |-> user_start_addresses[u],
           size |-> records_per_user[u] * record_byte_size]>>]

\* _calc_ring_buffer_read with a wrap address that leaves out max_records
calc_ring_buffer_read_no_wrap(start_addr, max_records, unread, last_slot) ==
    IF last_slot < unread
    THEN <<[address |-> start_addr, size |-> record_byte_size * last_slot],
           [address |-> start_addr + (last_slot - unread) * record_byte_size,
            size |-> record_byte_size * (unread - last_slot)]>>
    ELSE <<[address |-> start_addr + (last_slot - unread) * record_byte_size,
            size |-> record_byte_size * unread]>>

\* _calc_ring_buffer_read with one record more in its single read
calc_ring_buffer_read_one_more(start_addr, max_records, unread, last_slot) ==
    IF last_slot < unread
    THEN <<[address |-> start_addr, size |-> record_byte_size * last_slot],
           [address |-> start_addr
                        + (max_records + last_slot - unread) * record_byte_size,
            size |-> record_byte_size * (unread - last_slot)]>>
    ELSE <<[address |-> start_addr + (last_slot - unread) * record_byte_size,
            size |-> record_byte_size * (unread + 1)]>>

\* _calc_ring_buffer_read, for a ring of max_records slots at start_addr
calc_ring_buffer_read_of(start_addr, max_records, unread, last_slot) ==
    IF last_slot < unread
    THEN <<[address |-> start_addr, size |-> record_byte_size * last_slot],
           [address |-> start_addr
                        + (max_records + last_slot - unread) * record_byte_size,
            size |-> record_byte_size * (unread - last_slot)]>>
    ELSE <<[address |-> start_addr + (last_slot - unread) * record_byte_size,
            size |-> record_byte_size * unread]>>

\* _calc_ring_buffer_read
calc_ring_buffer_read(u, unread, last_slot) ==
    calc_ring_buffer_read_of(user_start_addresses[u], records_per_user[u],
                             unread, last_slot)

\* _get_unread_records_commands, from the cached unread-records section
get_unread_records_commands(cached) ==
    [u \in Users |->
        calc_ring_buffer_read(u, cached[2 * (u - 1) + 5], cached[2 * (u - 1) + 1])]

RECURSIVE Flatten(_)
Flatten(seqs) == IF seqs = <<>> THEN <<>> ELSE Head(seqs) \o Flatten(Tail(seqs))

\* get_all_records: `for cmd in user_commands: read_continuous(...)`
read_records_of(read_commands) ==
    Flatten([u \in Users |->
        Flatten([k \in 1..Len(read_commands[u]) |->
            read_continuous(read_commands[u][k].address, read_commands[u][k].size,
                            transmission_block_size)])])

\* _reset_unread_counters: both counters become 0x8000, little-endian
reset_unread_counters(cached) ==
    LET new_section == Slice(cached, 0, 4) \o <<0, 128, 0, 128>>
                       \o Slice(cached, 8, Len(cached))
    IN write_continuous(settings_write_address + settings_unread_records_bytes[1],
                        new_section, Len(new_section))

RECURSIVE Sum(_)
\* sum(data)
Sum(data) == IF data = <<>> THEN 0 ELSE Head(data) + Sum(Tail(data))

\* get_time_sync_bytes with a checksum that is not cut to a byte
get_time_sync_bytes_at_unmasked(section, current_time) ==
    LET new_bytes == Slice(section, 0, 8)
                     \o <<current_time.year - 2000, current_time.month,
                          current_time.day, current_time.hour,
                          current_time.minute, current_time.second>>
    IN new_bytes \o <<Sum(new_bytes), 0>>

\* get_time_sync_bytes(current_time), given the cached time-sync section
get_time_sync_bytes_at(section, current_time) ==
    LET new_bytes == Slice(section, 0, 8)
                     \o <<current_time.year - 2000, current_time.month,
                          current_time.day, current_time.hour,
                          current_time.minute, current_time.second>>
    IN new_bytes \o <<Sum(new_bytes) % 256, 0>>

\* get_time_sync_bytes for the instant 2026-01-02 03:04:05
get_time_sync_bytes(cached) ==
    get_time_sync_bytes_at(cached, [year |-> 2026, month |-> 1, day |-> 2,
                                    hour |-> 3, minute |-> 4, second |-> 5])

\* _sync_device_time
sync_device_time(cached) ==
    LET time_bytes == get_time_sync_bytes(cached)
    IN write_continuous(settings_write_address + settings_time_sync_bytes[1],
                        time_bytes, Len(time_bytes))

\* get_all_records with the settings written back before the records are read
get_all_records_writes_first(use_unread_counter, sync_time, info) ==
    <<UnlockCall, StartCall>>
    \o (IF sync_time \/ use_unread_counter THEN cache_settings ELSE <<>>)
    \o (IF use_unread_counter THEN reset_unread_counters(UnreadSection(info))
        ELSE <<>>)
    \o (IF sync_time THEN sync_device_time(TimeSection) ELSE <<>>)
    \o read_records_of(IF use_unread_counter
                       THEN get_unread_records_commands(UnreadSection(info))
                       ELSE get_all_records_commands)
    \o <<EndCall>>

\* get_all_records(use_unread_counter, sync_time): its calls to the
\* protocol, given what the device holds in its settings
get_all_records(use_unread_counter, sync_time, info) ==
    <<UnlockCall, StartCall>>
    \o (IF sync_time \/ use_unread_counter THEN cache_settings ELSE <<>>)
    \o read_records_of(IF use_unread_counter
                       THEN get_unread_records_commands(UnreadSection(info))
                       ELSE get_all_records_commands)
    \o (IF use_unread_counter THEN reset_unread_counters(UnreadSection(info))
        ELSE <<>>)
    \o (IF sync_time THEN sync_device_time(TimeSection) ELSE <<>>)
    \o <<EndCall>>

\* the command a call sends
command_of(op) ==
    CASE op.verb = "start" -> start_cmd
      [] op.verb = "end" -> stop_cmd
      [] op.verb = "read" -> read_cmd(op.address, op.size)
      [] op.verb = "write" -> write_cmd(op.address, op.data)
      [] OTHER -> <<>>

(***************************************************************************)
(* SpecProto: one caller runs its calls on one protocol object, one after  *)
(* the other.  The host is a single asyncio task: the callbacks of the BLE *)
(* stack run only while it is suspended in an await (a write to a          *)
(* characteristic, a sleep).  The device answers a command it has received *)
(* whole with one of its frames or not at all, and a frame sent reaches    *)
(* the host at any later time, in the order sent.                          *)
(***************************************************************************)
UnreadInfo(last_slot, unread) == [last_slot |-> last_slot, unread |-> unread]

\* what the device holds for the two users: user 1 has one unread record,
\* at the ring's start or wrapped; user 2 has none
UnreadInfos ==
    {<<UnreadInfo(1, 1), UnreadInfo(0, 0)>>, <<UnreadInfo(0, 1), UnreadInfo(0, 0)>>}

\* config["omron"], as far as reading goes
Configs == [read_mode : {"new_only", "all"}, sync_time : BOOLEAN]

\* DEFAULT_CONFIG["omron"]
DEFAULT_CONFIG == [read_mode |-> "new_only", sync_time |-> TRUE]

DriverArgs == [use_unread_counter : BOOLEAN, sync_time : BOOLEAN]

\* read_from_device: `sync_time = omron_config.get("sync_time", True)`,
\* `client.read_all_records_flat(only_new=False, sync_time=sync_time)`
read_from_device_args(omron_config) ==
    [use_unread_counter |-> FALSE, sync_time |-> omron_config.sync_time]

\* the calls a caller of the protocol itself may make
ApiCalls ==
    {UnlockCall, StartCall, EndCall,
     ReadCall(user_start_addresses[1], transmission_block_size)}
ApiPrograms == SeqsUpTo(ApiCalls, MaxOps) \ {<<>>}

\* the arguments of a read_continuous call made in an opened session: a few
\* bytes in blocks of a few bytes, and two blocks of the default size 0x10
ReadArgs ==
    [start_address : {user_start_addresses[1]},
     bytes_to_read : 0..MaxReadBytes,
     block_size : 1..MaxBlockSize]
    \cup {[start_address |-> user_start_addresses[1],
           bytes_to_read |-> 2 * transmission_block_size,
           block_size |-> transmission_block_size]}

InitProto ==
    /\ InitLedgerVars
    /\ InitConcVars
    /\ InitSyncVars
    /\ InitProtocol
    /\ InitAuxVars
    /\ \/ /\ caller = "read_from_device"
          /\ config \in Configs
          /\ driver_args = read_from_device_args(config)
          /\ settings \in UnreadInfos
          /\ read_args = NoRead
          /\ program = get_all_records(driver_args.use_unread_counter,
                                       driver_args.sync_time, settings)
       \/ /\ caller = "read_records"
          /\ config = DEFAULT_CONFIG
          /\ driver_args \in DriverArgs
          /\ settings \in UnreadInfos
          /\ read_args = NoRead
          /\ program = get_all_records(driver_args.use_unread_counter,
                                       driver_args.sync_time, settings)
       \/ /\ caller = "protocol"
          /\ config = DEFAULT_CONFIG
          /\ driver_args = [use_unread_counter |-> FALSE, sync_time |-> FALSE]
          /\ settings = <<UnreadInfo(1, 1), UnreadInfo(0, 0)>>
          /\ read_args = NoRead
          /\ program \in ApiPrograms
       \/ /\ caller = "read_continuous"
          /\ config = DEFAULT_CONFIG
          /\ driver_args = [use_unread_counter |-> FALSE, sync_time |-> FALSE]
          /\ settings = <<UnreadInfo(1, 1), UnreadInfo(0, 0)>>
          /\ read_args \in ReadArgs
          /\ program = <<StartCall>>
                       \o read_continuous(read_args.start_address,
                                          read_args.bytes_to_read,
                                          read_args.block_size)
    /\ ppc = "call"

ProtoFixed == <<ledgerVars, concVars, syncVars, auxVars, caller, config, driver_args,
                settings, read_args, program>>

ProtoOver == ppc \in {"done", "raised"}

\* mutant: the driver answers an error by going on to its last call,
\* end_transmission, as a `finally` would
Finish_ends_session(op, res) ==
    /\ outcome' = res
    /\ IF res = "ok" \/ caller = "protocol"
       THEN /\ ip' = ip + 1
            /\ ppc' = IF ip + 1 > Len(program) THEN "done" ELSE "call"
       ELSE IF ip < Len(program)
            THEN /\ ip' = Len(program)
                 /\ ppc' = "call"
            ELSE /\ ip' = ip
                 /\ ppc' = "raised"
    /\ session' = IF res # "ok" THEN session
                  ELSE CASE op.verb = "unlock" -> "unlocked"
                         [] op.verb = "start" -> "opened"
                         [] op.verb = "end" -> "closed"
                         [] OTHER -> session
    /\ rx_notify_enabled' = IF op.verb = "end" /\ res = "ok" THEN FALSE
                            ELSE rx_notify_enabled
    /\ returned' = IF op.verb = "read" /\ res = "ok" THEN Some(rx_data_bytes)
                   ELSE None
    /\ read_data' = IF caller = "read_continuous" /\ op.verb = "read" /\ res = "ok"
                    THEN read_data \o rx_data_bytes ELSE read_data

\* the call at ip ends with res ("ok" or the error raised).  The driver
\* lets an error through to its caller; a caller of the protocol goes on.
Finish(op, res) ==
    /\ outcome' = res
    /\ IF res = "ok" \/ caller = "protocol"
       THEN /\ ip' = ip + 1
            /\ ppc' = IF ip + 1 > Len(program) THEN "done" ELSE "call"
       ELSE /\ ip' = ip
            /\ ppc' = "raised"
    /\ session' = IF res # "ok" THEN session
                  ELSE CASE op.verb = "unlock" -> "unlocked"
                         [] op.verb = "start" -> "opened"
                         [] op.verb = "end" -> "closed"
                         [] OTHER -> session
    \* end_transmission: `await self._disable_rx_notifications()`
    /\ rx_notify_enabled' = IF op.verb = "end" /\ res = "ok" THEN FALSE
                            ELSE rx_notify_enabled
    \* read_eeprom_block: `return self._rx_data_bytes or b""`
    /\ returned' = IF op.verb = "read" /\ res = "ok" THEN Some(rx_data_bytes)
                   ELSE None
    \* read_continuous: `data += await self.read_eeprom_block(...)`
    /\ read_data' = IF caller = "read_continuous" /\ op.verb = "read" /\ res = "ok"
                    THEN read_data \o rx_data_bytes ELSE read_data

\* end_transmission after _send_and_wait
end_transmission_result(packet_type, data_bytes) ==
    IF packet_type # TYPE_END THEN "invalid_response"
    ELSE IF data_bytes # <<>> /\ data_bytes[1] # 0 THEN "device_error"
    ELSE "ok"

\* mutant: the block operations do not compare the response's address
result_of_no_address_check(op) ==
    CASE op.verb = "start" ->
           IF rx_packet_type # TYPE_START THEN "invalid_response" ELSE "ok"
      [] op.verb = "end" -> end_transmission_result(rx_packet_type, rx_data_bytes)
      [] op.verb = "read" ->
           IF rx_packet_type # TYPE_READ THEN "invalid_response" ELSE "ok"
      [] op.verb = "write" ->
           IF rx_packet_type # TYPE_WRITE THEN "invalid_response" ELSE "ok"
      [] OTHER -> "ok"

\* start_transmission, read_eeprom_block, write_eeprom_block and
\* end_transmission after _send_and_wait has returned: the checks of the
\* stored response
result_of(op) ==
    CASE op.verb = "start" ->
           IF rx_packet_type # TYPE_START THEN "invalid_response" ELSE "ok"
      [] op.verb = "end" -> end_transmission_result(rx_packet_type, rx_data_bytes)
      [] op.verb = "read" ->
           IF rx_eeprom_address # address_bytes(op.address) THEN "address_mismatch"
           ELSE IF rx_packet_type # TYPE_READ THEN "invalid_response"
           ELSE "ok"
      [] op.verb = "write" ->
           IF rx_eeprom_address # address_bytes(op.address) THEN "address_mismatch"
           ELSE IF rx_packet_type # TYPE_WRITE THEN "invalid_response"
           ELSE "ok"
      [] OTHER -> "ok"

\* _send_and_wait returns to the verb that called it
Return(op) ==
    /\ handed' = [op |-> ip, answers |-> rx_last.answers]
    /\ Finish(op, result_of(op))

\* _send_and_wait: `max_retries = 5`
max_retries == 5

\* mutant: one attempt more before giving up
retries_exhausted_late(n) == n > max_retries

\* _send_and_wait: `if retries >= max_retries: raise TimeoutError`
retries_exhausted(n) == n >= max_retries

\* mutant: unlock_with_key compares the first byte only
unlock_result_first_byte(data_bytes) ==
    IF Slice(data_bytes, 0, 1) # Slice(UNLOCK_OK, 0, 1) THEN "key_mismatch" ELSE "ok"

\* unlock_with_key after its wait
unlock_result(data_bytes) ==
    IF Slice(data_bytes, 0, 2) # UNLOCK_OK THEN "key_mismatch" ELSE "ok"

\* a verb is called: unlock_with_key writes the key and waits;
\* start_transmission enables the RX notifications first; every other verb
\* enters _send_and_wait at once
ProtoCall ==
    /\ ppc = "call"
    /\ LET op == program[ip]
       IN /\ rx_finished' = FALSE
          /\ tx_log' = <<>>
          /\ IF op.verb = "unlock"
             THEN /\ ppc' = "unlock_wait"
                  /\ UNCHANGED <<rx_notify_enabled, retries, ch_idx>>
             ELSE /\ ppc' = "tx"
                  /\ retries' = 0
                  /\ ch_idx' = 0
                  /\ rx_notify_enabled' = (rx_notify_enabled \/ op.verb = "start")
    /\ rx_rejected' = 0
    /\ UNCHANGED <<ProtoFixed, ip, rx_packet_type, rx_eeprom_address,
                   rx_data_bytes, rx_last, handed, sleep_parity,
                   current_timeout, wire, session, written, outcome, returned, read_data>>

\* the device has the whole command: it sends one of its answers, or none
DeviceReceives(command) ==
    \/ UNCHANGED <<wire, written>>
    \/ /\ Len(wire) < MaxWire
       /\ \E frame \in DeviceResponses(settings, command) :
            /\ wire' = Append(wire, [bytes |-> frame, answers |-> ip])
            /\ written' = IF Slice(frame, 1, 3) = TYPE_WRITE
                          THEN written \cup {command[4] * 256 + command[5]}
                          ELSE written

\* _send_and_wait: write_gatt_char of fragment ch_idx is over.  After the
\* last fragment `current_timeout = timeout_s`; the wait loop is entered
\* unless _rx_finished is set already, and then the call returns.
ProtoTx ==
    /\ ppc = "tx"
    /\ LET op == program[ip]
           command == command_of(op)
           last == ch_idx + 1 = required_tx_channels(command)
       IN /\ tx_log' = Append(tx_log, ch_idx)
          /\ IF ~last
             THEN /\ ch_idx' = ch_idx + 1
                  /\ UNCHANGED <<ppc, ip, current_timeout, wire, written, handed,
                                 outcome, returned, read_data, session, rx_notify_enabled>>
             ELSE /\ ch_idx' = 0
                  /\ current_timeout' = TimeoutTenths
                  /\ DeviceReceives(command)
                  /\ IF rx_finished
                     THEN Return(op)
                     ELSE /\ ppc' = "wait"
                          /\ UNCHANGED <<ip, handed, outcome, returned, read_data, session,
                                         rx_notify_enabled>>
    /\ UNCHANGED <<ProtoFixed, rx_rejected, rx_finished, rx_packet_type,
                   rx_eeprom_address,
                   rx_data_bytes, rx_last, sleep_parity, retries>>

\* _send_and_wait: an `await asyncio.sleep(0.1)` of the wait loop is over:
\* `current_timeout -= 0.1`, `if current_timeout < 0: break`, the loop's
\* test, `if current_timeout >= 0: break`, `retries += 1`
ProtoWait ==
    /\ ppc = "wait"
    /\ current_timeout' = current_timeout - 1
    /\ LET op == program[ip]
       IN IF current_timeout' < 0
          THEN /\ retries' = retries + 1
               /\ IF retries_exhausted(retries')
                  THEN Finish(op, "timeout")
                  ELSE /\ ppc' = "tx"
                       /\ UNCHANGED <<ip, outcome, returned, read_data, session, rx_notify_enabled>>
               /\ UNCHANGED handed
          ELSE /\ UNCHANGED retries
               /\ IF rx_finished
                  THEN Return(op)
                  ELSE UNCHANGED <<ppc, ip, handed, outcome, returned, read_data, session,
                                   rx_notify_enabled>>
    /\ UNCHANGED <<ProtoFixed, rx_rejected, rx_finished, rx_packet_type,
                   rx_eeprom_address,
                   rx_data_bytes, rx_last, sleep_parity, ch_idx, tx_log, wire,
                   written>>

\* unlock_with_key: an `await asyncio.sleep(0.1)` of `while not
\* self._rx_finished:` is over
ProtoUnlockWait ==
    /\ ppc = "unlock_wait"
    /\ sleep_parity' = 1 - sleep_parity
    /\ IF rx_finished
       THEN Finish(program[ip], unlock_result(rx_data_bytes))
       ELSE UNCHANGED <<ppc, ip, outcome, returned, read_data, session, rx_notify_enabled>>
    /\ UNCHANGED <<ProtoFixed, rx_rejected, rx_finished, rx_packet_type,
                   rx_eeprom_address,
                   rx_data_bytes, rx_last, handed, retries, current_timeout,
                   ch_idx, tx_log, wire, written>>

\* _unlock_callback: the device's indication on the unlock characteristic
UnlockCallback ==
    /\ ppc = "unlock_wait"
    /\ rx_last.via # "unlock" \/ rx_last.answers # ip
    /\ \E rx_bytes \in UnlockIndications :
         /\ rx_data_bytes' = rx_bytes
         /\ rx_last' = [bytes |-> rx_bytes, answers |-> ip, via |-> "unlock"]
    /\ rx_finished' = TRUE
    /\ UNCHANGED <<ProtoFixed, rx_rejected, ip, ppc, rx_notify_enabled,
                   rx_packet_type,
                   rx_eeprom_address, handed, sleep_parity, retries,
                   current_timeout, ch_idx, tx_log, wire, session, written,
                   outcome, returned, read_data>>

\* _rx_callback: the oldest frame under way reaches the host while it is
\* suspended.  Without notifications the frame is dropped by the stack.
RxCallback ==
    /\ ppc \in {"tx", "wait", "unlock_wait"}
    /\ wire # <<>>
    /\ wire' = Tail(wire)
    /\ LET frame == Head(wire)
           rx == rx_callback(frame.bytes)
       IN IF rx_notify_enabled /\ ~rx.raised
          THEN /\ rx_packet_type' = rx.packet_type
               /\ rx_eeprom_address' = rx.eeprom_address
               /\ rx_data_bytes' = rx.data_bytes
               /\ rx_last' = [bytes |-> frame.bytes, answers |-> frame.answers,
                              via |-> "rx"]
               /\ rx_finished' = TRUE
               /\ UNCHANGED rx_rejected
          ELSE /\ rx_rejected' = IF rx_notify_enabled THEN rx_rejected + 1
                                 ELSE rx_rejected
               /\ UNCHANGED <<rx_packet_type, rx_eeprom_address, rx_data_bytes,
                              rx_last, rx_finished>>
    /\ UNCHANGED <<ProtoFixed, ip, ppc, rx_notify_enabled, handed, sleep_parity,
                   retries, current_timeout, ch_idx, tx_log, session, written,
                   outcome, returned, read_data>>

NextProto ==
    \/ ProtoCall
    \/ ProtoTx
    \/ ProtoWait
    \/ ProtoUnlockWait
    \/ UnlockCallback
    \/ RxCallback

SpecProto == InitProto /\ [][NextProto]_vars

\* the host task is scheduled whenever it can run: its awaits end
ProtoHost == ProtoCall \/ ProtoTx \/ ProtoWait \/ ProtoUnlockWait

FairSpecProto == SpecProto /\ WF_vars(ProtoHost)

(***************************************************************************)
(* Properties of the ledger.                                               *)
(***************************************************************************)
SameRow(row, row2) == row.id = row2.id

\* C1 as stated: no step of mark_as_uploaded or update_upload_status turns a
\* row's garmin_uploaded or mqtt_published flag from true to false.
C1_FlagsNeverFall ==
    [][\A row \in db.rows : \A row2 \in db'.rows :
         SameRow(row, row2) =>
           /\ row.garmin_uploaded => row2.garmin_uploaded
           /\ row.mqtt_published => row2.mqtt_published]_vars

\* C1 amended: every row stays, and a flag of a row turns from true to false
\* only in an update_upload_status call that passes False for that flag; so
\* the flags never fall under mark_as_uploaded, nor under update_upload_status
\* calls that pass True or None.
C1_FlagsFallOnlyByUpdateFalse ==
    [][\A row \in db.rows :
         /\ \E row2 \in db'.rows : SameRow(row, row2)
         /\ \A row2 \in db'.rows :
              SameRow(row, row2) =>
                /\ row.garmin_uploaded /\ ~row2.garmin_uploaded =>
                     /\ lastCall'.op = "update_upload_status"
                     /\ lastCall'.garmin = Some(FALSE)
                     /\ record_hash(lastCall'.record) = row.record_hash
                /\ row.mqtt_published /\ ~row2.mqtt_published =>
                     /\ lastCall'.op = "update_upload_status"
                     /\ lastCall'.mqtt = Some(FALSE)
                     /\ record_hash(lastCall'.record) = row.record_hash]_vars

\* a row whose flags are both true has just been marked again with both false
C1_Witness ==
    /\ lastCall.op = "mark_as_uploaded"
    /\ lastCall.garmin = Some(FALSE)
    /\ lastCall.mqtt = Some(FALSE)
    /\ \E row \in RowsOf(db, record_hash(lastCall.record)) :
         row.garmin_uploaded /\ row.mqtt_published

\* C5: the ledger never holds two rows with the same fingerprint (nor two
\* rows with the same id).
C5_FingerprintUnique ==
    \A row \in db.rows : \A row2 \in db.rows :
        (row.record_hash = row2.record_hash \/ row.id = row2.id) => row = row2

\* the reading marked last was known already: its row was inserted for R1,
\* without the irregular-heartbeat flag the marked reading carries
C5_Witness ==
    /\ lastCall.op = "mark_as_uploaded"
    /\ lastCall.record = R1ihb
    /\ \E row \in RowsOf(db, record_hash(R1ihb)) : ~row.irregular_heartbeat
    /\ Cardinality(db.rows) = 2

\* the places of `records` whose fingerprint has no row in d
UnknownPlaces(d, records) ==
    {i \in 1..Len(records) :
        \A row \in d.rows : row.record_hash # record_hash(records[i])}

\* out lists the elements of records at the places I, in the order of records
IsSublistAt(out, records, I) ==
    /\ Len(out) = Cardinality(I)
    /\ \A i \in I : out[Cardinality({j \in I : j <= i})] = records[i]

\* C7: a filter_new_records call leaves the ledger as it was and returns the
\* input's readings whose fingerprint has no row, in input order; none of
\* them is a reading mark_as_uploaded was ever called for.
C7_FilterNewRecords ==
    [][lastCall'.op = "filter_new_records" =>
         /\ db' = db
         /\ IsSublistAt(filterOut', lastCall'.records,
                        UnknownPlaces(db, lastCall'.records))
         /\ \A i \in 1..Len(filterOut') :
              record_hash(filterOut'[i]) \notin markedAny]_vars

\* of <<R1ihb, R3>> the call returned <<R3>>: R1 was marked, with both flags false
C7_Witness ==
    /\ lastCall.op = "filter_new_records"
    /\ lastCall.records = <<R1ihb, R3>>
    /\ filterOut = <<R3>>
    /\ \E row \in RowsOf(db, record_hash(R1)) :
         ~row.garmin_uploaded /\ ~row.mqtt_published

\* the flags of fingerprint h are the OR of the arguments of all marks of h
FlagsAreOrOfMarks(h) ==
    \A row \in RowsOf(db, h) :
        /\ row.garmin_uploaded = (h \in markedG)
        /\ row.mqtt_published = (h \in markedM)

\* C6: after any sequence of mark_as_uploaded calls, in any order, a marked
\* reading has a row whose garmin flag is the OR of the garmin arguments and
\* whose mqtt flag is the OR of the mqtt arguments passed for it.
C6_FlagsAreOrOfArguments ==
    \A h \in markedAny : RowsOf(db, h) # {} /\ FlagsAreOrOfMarks(h)

\* R1 was marked three times or more, not always with the same arguments, and
\* carries garmin only
C6_Witness ==
    /\ markedAny = {record_hash(R1)}
    /\ omarks[1] + omarks[2] >= 3
    /\ markedG = {record_hash(R1)}
    /\ markedM = {}

\* C8: when both orchestrators are done, whatever the interleaving, no
\* mark_as_uploaded has raised, and the ledger holds exactly one row for each
\* fingerprint marked, with the OR of all marks of both, and no other row.
C8_ConcurrentMarksMerge ==
    (\A p \in Orchs : opc[p] = "done") =>
        /\ raised = 0
        /\ \A h \in markedAny :
             Cardinality(RowsOf(db, h)) = 1 /\ FlagsAreOrOfMarks(h)
        /\ \A row \in db.rows : row.record_hash \in markedAny

\* both orchestrators found R1 new (neither had marked it when the other
\* filtered), both marked it, and its row carries both flags
C8_Witness ==
    /\ \A p \in Orchs : opc[p] = "done" /\ onew[p] = <<R1>> /\ omarks[p] = 1
    /\ \E row \in db.rows : row.garmin_uploaded /\ row.mqtt_published

(***************************************************************************)
(* Properties of the sync cycle.                                           *)
(***************************************************************************)
GarminDelivered(h) == \E row \in RowsOf(db, h) : row.garmin_uploaded
MqttDelivered(h) == \E row \in RowsOf(db, h) : row.mqtt_published

\* C2: once upload_to_garmin (publish_to_mqtt) has processed the candidates,
\* the ledger has the garmin (mqtt) flag set for exactly the candidates whose
\* push to that sink succeeded.
C2_FlagsMatchPushOutcomes ==
    /\ \A i \in 1..Len(garminLog) :
         GarminDelivered(record_hash(new_records[i])) <=> garminLog[i] = "uploaded"
    /\ \A i \in 1..Len(mqttLog) :
         MqttDelivered(record_hash(new_records[i])) <=> mqttLog[i] = "success"

\* the cycle at its end is the second of two consecutive non-dry-run cycles
\* that read the same records from the device
SecondOfTwoAlike ==
    /\ pc = "end"
    /\ prev.cycle = cycle - 1
    /\ prev.cycle >= 1
    /\ prev.read_ok /\ summary.errors = <<>>
    /\ ~prev.dry_run /\ ~call.dry_run
    /\ prev.records = sync_records

\* C3: in the second of two consecutive non-dry-run cycles that read
\* identical records, filter_new_records returns nothing, nothing is pushed
\* to a sink and the summary reports 0 new records.
C3_SecondCycleFindsNothingNew ==
    SecondOfTwoAlike =>
        /\ new_records = <<>>
        /\ summary.new_records = 0
        /\ garminLog = <<>>
        /\ mqttLog = <<>>

Failures(outcomes) ==
    {i \in 1..Len(outcomes) : outcomes[i] \in {"failed", "not_pushed"}}

\* C4: at the end of a cycle, a candidate whose push to Garmin (MQTT) failed
\* has a row whose garmin (mqtt) flag is false and which get_pending_garmin
\* (get_pending_mqtt) returns, and the summary's failed counter of the sink
\* counts the failures.
C4_FailedPushIsPending ==
    pc = "end" =>
        /\ \A i \in Failures(garminLog) :
             \E row \in RowsOf(db, record_hash(new_records[i])) :
                /\ ~row.garmin_uploaded
                /\ \E k \in 1..Len(get_pending_garmin(db, 100)) :
                      get_pending_garmin(db, 100)[k] = row
        /\ \A i \in Failures(mqttLog) :
             \E row \in RowsOf(db, record_hash(new_records[i])) :
                /\ ~row.mqtt_published
                /\ \E k \in 1..Len(get_pending_mqtt(db, 100)) :
                      get_pending_mqtt(db, 100)[k] = row
        /\ garminLog # <<>> => summary.garmin.failed = Cardinality(Failures(garminLog))
        /\ mqttLog # <<>> => summary.mqtt.failed = Cardinality(Failures(mqttLog))

\* C9: a dry-run cycle pushes nothing to a sink and leaves the ledger and the
\* sinks' contents as they were, and when it has read the device its summary
\* reports as new_records the number of records read that the ledger does
\* not know.
C9_DryRunRecordsNothing ==
    (InCycle /\ call.dry_run) =>
        /\ db = db0
        /\ garminLog = <<>>
        /\ mqttLog = <<>>
        /\ pc \notin {"garmin", "mqtt"}
        /\ (pc = "end" /\ summary.errors = <<>>) =>
              summary.new_records = Cardinality(UnknownPlaces(db0, sync_records))

\* a dry-run cycle with both sinks up has ended: of the two records read,
\* one is new
C9_Witness ==
    /\ pc = "end"
    /\ call.dry_run
    /\ init_ok.garmin /\ init_ok.mqtt
    /\ summary.device_records = 2
    /\ summary.new_records = 1
    /\ Len(new_records) = 1

\* something was pushed to a sink in this cycle
Pushed(outcomes) == \E i \in 1..Len(outcomes) : outcomes[i] # "not_pushed"

\* C10: when no sink initialised and the run is not a dry-run, the command
\* makes no connection to the device, pushes nothing and records nothing;
\* this for cmd_sync and for cmd_daemon.
C10_NoSinkNoDeviceSession ==
    (cmd # "none" /\ ~init_ok.garmin /\ ~init_ok.mqtt /\ ~args.dry_run) =>
        /\ sessions = 0
        /\ db = db0
        /\ ~Pushed(garminLog)
        /\ ~Pushed(mqttLog)

(***************************************************************************)
(* Properties of a sync cycle's failures and of the daemon's shutdown.     *)
(***************************************************************************)
AllPushed(log, candidates) ==
    /\ Len(log) = Len(candidates)
    /\ \A i \in 1..Len(log) : log[i] # "not_pushed"

\* C12: a failed push does not stop the cycle.  Once the Garmin step of a
\* cycle with candidates is over, every candidate has been pushed to Garmin
\* if that sink is enabled and logged in, and once the MQTT step is over
\* every candidate has been pushed to MQTT if that sink is enabled and
\* connected: whatever failed before, and also when the Garmin step raised.
C12_FailedPushDoesNotStopCycle ==
    (new_records # <<>> /\ ~call.dry_run) =>
        /\ (pc \in {"mqtt", "end"} /\ call.garmin_enabled
              /\ bridge_garmin = "logged_in")
             => AllPushed(garminLog, new_records)
        /\ (pc = "end" /\ call.mqtt_enabled /\ bridge_mqtt = "connected")
             => AllPushed(mqttLog, new_records)

\* the first upload failed, the second went through, the Garmin step raised
\* while recording it, and both candidates were still published to MQTT
C12_Witness ==
    /\ pc = "end"
    /\ Len(new_records) = 2
    /\ garminLog = <<"failed", "uploaded">>
    /\ \E i \in 1..Len(summary.errors) : summary.errors[i] = "Garmin"
    /\ mqttLog = <<"failed", "success">>

DaemonPcAfter(at) ==
    CASE at = "loop" -> {"loop", "exit"}
      [] at = "sleep" -> {"sleep", "loop"}
      [] at = "sleeping" -> {"sleeping", "sleep"}
      [] at = "read" -> {"read", "filter", "end"}
      [] at = "filter" -> {"filter", "garmin", "end"}
      [] at = "garmin" -> {"garmin", "mqtt"}
      [] at = "mqtt" -> {"mqtt", "end"}
      [] at = "end" -> {"end", "sleep"}
      [] OTHER -> {at}

\* C13: once the shutdown flag of a running daemon is set, no step starts a
\* sync cycle or a sleep step: a cycle in flight goes on through its steps to
\* its end, a sleep step in flight ends, the loop is left and cmd_daemon
\* returns 0.
C13_ShutdownFlagStopsDaemon ==
    [][(cmd = "daemon" /\ ~running /\ pc \notin {"start", "exit"}) =>
          /\ cycle' = cycle
          /\ pc' \in DaemonPcAfter(pc)
          /\ ~running'
          /\ slept' <= slept + 1
          /\ (pc' = "exit" => exit_code' = 0 /\ cmd' = "daemon")]_vars

\* the signal has come during the first one-second sleep step after a cycle
\* that found records, with more sleep steps left to take
C13_Witness ==
    /\ cmd = "daemon"
    /\ ~running
    /\ pc = "sleeping"
    /\ slept = 0
    /\ slept + 1 < MaxSleepSteps
    /\ prev.cycle = cycle
    /\ prev.records # <<>>

\* C14: a failed device read aborts the cycle.  While the cycle is still
\* running nothing has been pushed, the ledger is as it was when the cycle
\* began and sync is about to return a summary that holds the failure; the
\* sync command that ran the cycle exits with code 1.
C14_ReadFailureAbortsCycle ==
    /\ (InCycle /\ ReadFailed(summary.errors)) =>
          /\ pc = "end"
          /\ garminLog = <<>>
          /\ mqttLog = <<>>
          /\ db = db0
    /\ (cmd = "sync" /\ pc = "exit" /\ prev.cycle = cycle /\ cycle > 0
          /\ ReadFailed(prev.errors))
         => exit_code = 1

\* a sync command whose device held records has exited after a failed read
C14_Witness ==
    /\ cmd = "sync"
    /\ pc = "exit"
    /\ prev.cycle = cycle
    /\ cycle > 0
    /\ ReadFailed(prev.errors)
    /\ device # <<>>
    /\ exit_code = 1
    /\ db = db0

(***************************************************************************)
(* Properties of the protocol.                                             *)
(***************************************************************************)
\* the call that is running, or that has raised
CurrentCall == program[ip]

\* the call that ended last
LastCall == IF ppc = "raised" THEN program[ip] ELSE program[ip - 1]

SomeCallEnded == ppc = "raised" \/ (ppc \in {"call", "done"} /\ ip > 1)

SendsCommand(op) == op.verb \in {"start", "end", "read", "write"}

InSendAndWait == ppc \in {"tx", "wait"}

\* C15: _send_and_wait writes the fragments of its command in index order,
\* from the first, at most 5 times over; a timed-out attempt is followed by a
\* resend from fragment 0 or, if it was the fifth, by the timeout error; an
\* attempt whose frame has come before its window is over returns; and a
\* call ends with the timeout error exactly when its retries have reached 5.
C15_SendAndWaitRetries ==
    /\ [](InSendAndWait =>
            LET k == required_tx_channels(command_of(CurrentCall))
            IN /\ Len(tx_log) <= max_retries * k
               /\ \A i \in 1..Len(tx_log) : tx_log[i] = (i - 1) % k
               /\ (ppc = "wait" => Len(tx_log) = (retries + 1) * k)
               /\ retries < max_retries)
    /\ []((SomeCallEnded /\ SendsCommand(LastCall)) =>
            ((outcome = "timeout") <=> (retries = max_retries)))
    /\ [][/\ (retries' = retries + 1) =>
               /\ ppc = "wait" /\ current_timeout = 0
               /\ \/ ppc' = "tx" /\ ch_idx' = 0 /\ retries' < max_retries
                  \/ retries' = max_retries /\ outcome' = "timeout"
                       /\ ppc' # "tx"
          /\ (ppc = "wait" /\ rx_finished /\ current_timeout > 0
                /\ current_timeout' # current_timeout) =>
               /\ handed'.op = ip
               /\ outcome' # "timeout"
               /\ ppc' \notin {"tx", "wait"} \/ ip' = ip + 1]_vars

\* a write of 16 bytes, two fragments long, has been sent five times and
\* has ended with the timeout error
C15_Witness ==
    /\ ppc = "raised"
    /\ outcome = "timeout"
    /\ CurrentCall.verb = "write"
    /\ retries = max_retries
    /\ tx_log = <<0, 1, 0, 1, 0, 1, 0, 1, 0, 1>>

\* C17: the frame a _send_and_wait hands to its caller is a frame the device
\* sent in answer to that call's command, never one sent in answer to an
\* earlier call.
C17_HandedFrameAnswersItsCall ==
    SomeCallEnded => handed.op = handed.answers

\* C18: a read or write block command is on its way to the device only
\* while the session is opened.
C18_EepromOpsNeedOpenedSession ==
    (InSendAndWait /\ CurrentCall.verb \in {"read", "write"})
        => session = "opened"

LastIp == IF ppc = "raised" THEN ip ELSE ip - 1

\* C19: end_transmission succeeds, and has then disabled the RX
\* notifications, exactly when a response has come whose type is 0x8f00 and
\* whose error byte (byte 6 of the frame) is zero.
C19_EndClosesOnZeroErrorByte ==
    (SomeCallEnded /\ LastCall.verb = "end") =>
        /\ (outcome = "ok") <=>
              /\ outcome # "timeout"
              /\ Slice(rx_last.bytes, 1, 3) = TYPE_END
              /\ rx_last.bytes[7] = 0
        /\ (outcome = "ok") => (~rx_notify_enabled /\ session = "closed")

\* C20: unlock_with_key, called while the RX notifications are off (as
\* get_all_records calls it on a new connection), succeeds exactly when the
\* indication received for it starts with 0x81 0x00 and fails with the
\* key-mismatch error otherwise; the driver then raises at its first call
\* and has sent no command.
C20_UnlockNeedsMatchingKey ==
    /\ (SomeCallEnded /\ LastCall.verb = "unlock" /\ ~rx_notify_enabled) =>
          /\ rx_last.via = "unlock"
          /\ rx_last.answers = LastIp
          /\ (outcome = "ok") <=> (Slice(rx_last.bytes, 0, 2) = UNLOCK_OK)
          /\ outcome \in {"ok", "key_mismatch"}
    /\ (caller # "protocol" /\ outcome = "key_mismatch") =>
          /\ ppc = "raised"
          /\ ip = 1
          /\ tx_log = <<>>
          /\ wire = <<>>
          /\ session = "idle"

\* the device's indication shared its first byte with 0x8100 only, and
\* get_all_records has raised without sending a command
C20_Witness ==
    /\ caller = "read_from_device"
    /\ ppc = "raised"
    /\ outcome = "key_mismatch"
    /\ rx_last = [bytes |-> <<129, 1>>, answers |-> 1, via |-> "unlock"]
    /\ tx_log = <<>>

\* C11: a device read of the orchestrator that went through has reset the
\* unread counters on the device when the configuration says new_only, and
\* has left them alone when it says all.
C11_ReadModeFromConfig ==
    (caller = "read_from_device" /\ ppc = "done") =>
        ((config.read_mode = "new_only") <=>
            (settings_write_address + settings_unread_records_bytes[1]
                \in written))

\* C16: whatever the device does, the caller's run comes to an end: every
\* call returns or raises.
C16_EveryCallTerminates == <>ProtoOver

\* the stored response is a frame of the given type for the given address
StoredResponseIs(packet_type, address) ==
    /\ rx_last.via = "rx"
    /\ Slice(rx_last.bytes, 1, 3) = packet_type
    /\ Slice(rx_last.bytes, 3, 5) = address_bytes(address)

\* C21: read_eeprom_block returns bytes, the payload of the response,
\* exactly when a response has come whose type is 0x8100 and whose address
\* is the requested one, and write_eeprom_block succeeds exactly when a
\* response has come whose type is 0x81c0 and whose address is the written
\* one; otherwise the operation ends with an error (timeout, address
\* mismatch, invalid response) and returns nothing.
C21_BlockOpsCheckTypeAndAddress ==
    /\ (SomeCallEnded /\ LastCall.verb = "read") =>
          /\ (outcome = "ok") <=>
                (outcome # "timeout" /\ StoredResponseIs(TYPE_READ, LastCall.address))
          /\ (outcome = "ok") =>
                returned = Some(rx_callback(rx_last.bytes).data_bytes)
          /\ (outcome # "ok") =>
                /\ returned = None
                /\ outcome \in {"timeout", "address_mismatch", "invalid_response"}
    /\ (SomeCallEnded /\ LastCall.verb = "write") =>
          /\ (outcome = "ok") <=>
                (outcome # "timeout" /\ StoredResponseIs(TYPE_WRITE, LastCall.address))
          /\ returned = None
          /\ outcome \in {"ok", "timeout", "address_mismatch", "invalid_response"}

\* a read has been answered with type 0x8100 for the next address: it has
\* raised the address mismatch and returned nothing
C21_Witness ==
    /\ caller = "read_continuous"
    /\ ppc = "raised"
    /\ CurrentCall.verb = "read"
    /\ outcome = "address_mismatch"
    /\ handed.op = ip /\ handed.answers = ip
    /\ Slice(rx_last.bytes, 1, 3) = TYPE_READ
    /\ Slice(rx_last.bytes, 3, 5) = address_bytes(CurrentCall.address + 1)
    /\ returned = None

(***************************************************************************)
(* SpecDuplicate: GarminUploader.is_duplicate_in_garmin applied to a       *)
(* reading and a list of measurements as Garmin Connect returns them.  The *)
(* text of measurementTimestampLocal is kept as its form, its instant in   *)
(* whole seconds and its fraction in tenths of a second.                   *)
(***************************************************************************)
\* "2025-12-26T22:59:00.0", "2025-12-26T22:59:00", "2025-12-26T22:59:00Z",
\* "2025-12-26T22:59:00.0Z", a text that is no ISO timestamp, ""
TsText(form, seconds, frac) == [form |-> form, seconds |-> seconds, frac |-> frac]

\* lines 180-195: `replace("Z", "+00:00")`, the split at ".", and
\* datetime.fromisoformat: the datetime parsed, which carries a timezone
\* only when the offset was not cut off with the fraction
garmin_ts(text) ==
    CASE text.form = "local_frac" ->
           [parsed |-> TRUE, aware |-> FALSE, seconds |-> text.seconds]
      [] text.form = "local" ->
           [parsed |-> TRUE, aware |-> FALSE, seconds |-> text.seconds]
      [] text.form = "utc_frac" ->
           [parsed |-> TRUE, aware |-> FALSE, seconds |-> text.seconds]
      [] text.form = "utc" ->
           [parsed |-> TRUE, aware |-> TRUE, seconds |-> text.seconds]
      [] OTHER ->
           [parsed |-> FALSE, aware |-> FALSE, seconds |-> 0]

Returns(value) == [raised |-> FALSE, value |-> value]
\* `reading.timestamp - garmin_ts` of a naive and an aware datetime
TypeError == [raised |-> TRUE, value |-> FALSE]

\* `time_diff > 60`
too_far_apart(time_diff) == time_diff > 60

RECURSIVE is_duplicate_in_garmin_list(_, _)
\* is_duplicate_in_garmin with existing_readings given: the loop over the
\* list, from its first measurement
is_duplicate_in_garmin_list(reading, existing_readings) ==
    IF existing_readings = <<>> THEN Returns(FALSE)
    ELSE LET existing == Head(existing_readings)
             rest == Tail(existing_readings)
             garmin_ts_str == existing.measurementTimestampLocal
         IN IF garmin_ts_str.form = "empty"
            THEN is_duplicate_in_garmin_list(reading, rest)
            ELSE IF ~garmin_ts(garmin_ts_str).parsed
            THEN is_duplicate_in_garmin_list(reading, rest)
            ELSE IF garmin_ts(garmin_ts_str).aware
            THEN TypeError
            ELSE IF too_far_apart(Abs(reading.timestamp
                                      - garmin_ts(garmin_ts_str).seconds))
            THEN is_duplicate_in_garmin_list(reading, rest)
            ELSE IF /\ existing.systolic = reading.systolic
                    /\ existing.diastolic = reading.diastolic
                    /\ existing.pulse = reading.pulse
            THEN Returns(TRUE)
            ELSE is_duplicate_in_garmin_list(reading, rest)

\* the reading checked
Probe == Reading(1000, 139, 83, 73, FALSE, FALSE, 1)

GarminMeasurement(text, sys, dia, pulse) ==
    [measurementTimestampLocal |-> text, systolic |-> sys, diastolic |-> dia,
     pulse |-> pulse]

\* instants around the reading's: 61, 60 and 0 s before, 30, 60 and 61 s
\* and 30 min after
RemoteInstants == {939, 940, 1000, 1030, 1060, 1061, 2800}

\* measurements Garmin Connect may hold: in its usual format with the
\* reading's values or with one of them different, and with the reading's
\* values in every other format
RemoteMeasurements ==
    {GarminMeasurement(TsText("local_frac", t, 0), v[1], v[2], v[3]) :
        t \in RemoteInstants,
        v \in {<<139, 83, 73>>, <<120, 83, 73>>, <<139, 80, 73>>, <<139, 83, 70>>}}
    \cup {GarminMeasurement(TsText(f, t, 0), 139, 83, 73) :
            f \in {"local", "utc"}, t \in RemoteInstants}
    \cup {GarminMeasurement(TsText(f, t, 5), 139, 83, 73) :
            f \in {"local_frac", "utc_frac"}, t \in RemoteInstants}
    \cup {GarminMeasurement(TsText(f, 0, 0), 139, 83, 73) :
            f \in {"no_timestamp", "empty"}}

InitDuplicate ==
    /\ InitNoProgram
    /\ fn_in \in [reading : {Probe},
                  existing_readings : SeqsUpTo(RemoteMeasurements, MaxRemote)]
    /\ fn_out = NotApplied

ApplyIsDuplicateInGarmin ==
    /\ fn_out = NotApplied
    /\ fn_out' = is_duplicate_in_garmin_list(fn_in.reading, fn_in.existing_readings)
    /\ UNCHANGED <<ledgerVars, concVars, syncVars, protoVars, fn_in, rxVars, clientVars>>

NextDuplicate == ApplyIsDuplicateInGarmin

SpecDuplicate == InitDuplicate /\ [][NextDuplicate]_vars

\* a measurement whose timestamp text is an ISO timestamp
Parseable(m) ==
    m.measurementTimestampLocal.form \in {"local_frac", "local", "utc_frac", "utc"}

\* the distance of a measurement's instant from the reading's, in tenths of
\* a second
DistanceTenths(reading, m) ==
    Abs(10 * reading.timestamp
        - (10 * m.measurementTimestampLocal.seconds + m.measurementTimestampLocal.frac))

\* C22: is_duplicate_in_garmin returns, and returns true exactly when some
\* measurement of the list has a parseable timestamp no more than 60 s from
\* the reading's, before or after, and the reading's systolic, diastolic and
\* pulse.
C22_DuplicateIffCloseAndEqual ==
    fn_out # NotApplied =>
        fn_out = Returns(\E i \in 1..Len(fn_in.existing_readings) :
                            LET m == fn_in.existing_readings[i]
                            IN /\ Parseable(m)
                               /\ DistanceTenths(fn_in.reading, m) <= 600
                               /\ m.systolic = fn_in.reading.systolic
                               /\ m.diastolic = fn_in.reading.diastolic
                               /\ m.pulse = fn_in.reading.pulse)

(***************************************************************************)
(* SpecHash: BloodPressureReading.record_hash as the text the f-string     *)
(* builds, a sequence of characters, for two readings.                     *)
(***************************************************************************)
DigitChar(d) == <<"0", "1", "2", "3", "4", "5", "6", "7", "8", "9">>[d + 1]

RECURSIVE str(_)
\* f"{n}" of a natural number
str(n) == IF n < 10 THEN <<DigitChar(n)>>
          ELSE str(n \div 10) \o <<DigitChar(n % 10)>>

\* two digits, zero-padded
TwoDigits(n) == <<DigitChar(n \div 10), DigitChar(n % 10)>>

\* timestamp.isoformat() of a naive datetime without microseconds; the
\* model's timestamps are the seconds of 2024-12-30
isoformat(ts) ==
    <<"2", "0", "2", "4", "-", "1", "2", "-", "3", "0", "T">>
    \o TwoDigits(ts \div 3600) \o <<":">> \o TwoDigits((ts \div 60) % 60)
    \o <<":">> \o TwoDigits(ts % 60)

\* mutant: the parts are put together without the "_" between them
record_hash_str_no_separator(r) ==
    isoformat(r.timestamp) \o str(r.systolic) \o str(r.diastolic)
    \o str(r.pulse) \o str(r.user_slot)

\* record_hash: f"{timestamp.isoformat()}_{systolic}_{diastolic}_{pulse}_{user_slot}"
record_hash_str(r) ==
    isoformat(r.timestamp) \o <<"_">> \o str(r.systolic) \o <<"_">>
    \o str(r.diastolic) \o <<"_">> \o str(r.pulse) \o <<"_">> \o str(r.user_slot)

\* readings whose decimal texts run into each other when written without a
\* separator (1|20 and 12|0, 120|8 and 12|08 ...), at two instants, for both
\* user slots, with and without the irregular-heartbeat flag
HashReadings ==
    {Reading(ts, sys, dia, pulse, ihb, FALSE, slot) :
        ts \in {100, 37800}, sys \in {1, 12, 120}, dia \in {0, 20, 80},
        pulse \in {7, 72}, ihb \in BOOLEAN, slot \in {1, 2}}

InitHash ==
    /\ InitNoProgram
    /\ fn_in \in [a : HashReadings, b : HashReadings]
    /\ fn_out = NotApplied

ApplyRecordHash ==
    /\ fn_out = NotApplied
    /\ fn_out' = [a |-> record_hash_str(fn_in.a), b |-> record_hash_str(fn_in.b)]
    /\ UNCHANGED <<ledgerVars, concVars, syncVars, protoVars, fn_in, rxVars, clientVars>>

NextHash == ApplyRecordHash

SpecHash == InitHash /\ [][NextHash]_vars

\* C23: the fingerprints of two readings are equal exactly when the readings
\* agree on timestamp, systolic, diastolic, pulse and user_slot (the tuple
\* the ledger's specifications use for the fingerprint).
C23_SameHashIffSameFiveFields ==
    fn_out # NotApplied =>
        /\ (fn_out.a = fn_out.b) <=>
              /\ fn_in.a.timestamp = fn_in.b.timestamp
              /\ fn_in.a.systolic = fn_in.b.systolic
              /\ fn_in.a.diastolic = fn_in.b.diastolic
              /\ fn_in.a.pulse = fn_in.b.pulse
              /\ fn_in.a.user_slot = fn_in.b.user_slot
        /\ (fn_out.a = fn_out.b) <=> (record_hash(fn_in.a) = record_hash(fn_in.b))

\* two readings that differ in user_slot alone, and whose fingerprints
\* differ in their last character alone
C23_Witness ==
    /\ fn_out # NotApplied
    /\ fn_in.a = Reading(100, 120, 80, 72, FALSE, FALSE, 1)
    /\ fn_in.b = Reading(100, 120, 80, 72, FALSE, FALSE, 2)
    /\ fn_out.a # fn_out.b
    /\ SubSeq(fn_out.a, 1, Len(fn_out.a) - 1) = SubSeq(fn_out.b, 1, Len(fn_out.b) - 1)
    /\ fn_out.a = <<"2", "0", "2", "4", "-", "1", "2", "-", "3", "0", "T",
                    "0", "0", ":", "0", "1", ":", "4", "0", "_", "1", "2", "0",
                    "_", "8", "0", "_", "7", "2", "_", "1">>

(***************************************************************************)
(* SpecCategory: BloodPressureReading.category applied to a reading.       *)
(***************************************************************************)
\* pressures around every bound of the classification
SystolicRange == 100..190
DiastolicRange == 60..120

InitCategory ==
    /\ InitNoProgram
    /\ fn_in \in {Reading(100, sys, dia, 70, FALSE, FALSE, 1) :
                    sys \in SystolicRange, dia \in DiastolicRange}
    /\ fn_out = NotApplied

ApplyCategory ==
    /\ fn_out = NotApplied
    /\ fn_out' = Some(category(fn_in))
    /\ UNCHANGED <<ledgerVars, concVars, syncVars, protoVars, fn_in, rxVars, clientVars>>

NextCategory == ApplyCategory

SpecCategory == InitCategory /\ [][NextCategory]_vars

\* the rules of the classification in their order: label, bound of the
\* systolic pressure, bound of the diastolic pressure
CategoryRules ==
    <<<<"optimal", 120, 80>>, <<"normal", 130, 85>>, <<"high_normal", 140, 90>>,
      <<"grade1_hypertension", 160, 100>>, <<"grade2_hypertension", 180, 110>>>>

Satisfies(r, rule) == r.systolic < rule[2] /\ r.diastolic < rule[3]

\* the number of bounds a pressure has reached
Reached(value, bounds) == Cardinality({b \in bounds : value >= b})

\* C24: the category is the label of the first rule, in the order optimal,
\* normal, high-normal, grade 1, grade 2, that the pressures satisfy, and
\* grade 3 when they satisfy none; it is therefore the worse of the classes
\* of the two pressures taken alone.
C24_CategoryIsFirstSatisfiedRule ==
    fn_out # NotApplied =>
        /\ \A i \in 1..Len(CategoryRules) :
              (/\ Satisfies(fn_in, CategoryRules[i])
               /\ \A j \in 1..(i - 1) : ~Satisfies(fn_in, CategoryRules[j]))
                  => fn_out[1] = CategoryRules[i][1]
        /\ (\A i \in 1..Len(CategoryRules) : ~Satisfies(fn_in, CategoryRules[i]))
              => fn_out[1] = "grade3_hypertension"
        /\ LET worse == Max(Reached(fn_in.systolic, {120, 130, 140, 160, 180}),
                            Reached(fn_in.diastolic, {80, 85, 90, 100, 110}))
           IN fn_out[1] = (<<"optimal", "normal", "high_normal", "grade1_hypertension",
                          "grade2_hypertension", "grade3_hypertension">>)[worse + 1]
        /\ (fn_in.systolic = 120 /\ fn_in.diastolic = 80) => fn_out[1] = "normal"
        /\ (fn_in.systolic = 140 /\ fn_in.diastolic = 90)
              => fn_out[1] = "grade1_hypertension"
        /\ (fn_in.systolic = 180 /\ fn_in.diastolic \in {70, 110})
              => fn_out[1] = "grade3_hypertension"

\* 180/70: the diastolic pressure alone is optimal, the category is grade 3
C24_Witness ==
    /\ fn_in.systolic = 180
    /\ fn_in.diastolic = 70
    /\ fn_out = Some("grade3_hypertension")

(***************************************************************************)
(* SpecRetention: DuplicateFilter.delete_old_records applied to a ledger   *)
(* with one row.  Instants are seconds since 2025-01-01T00:00:00; a date   *)
(* is the number of its day in 2025.  The rows' timestamps and the cutoff  *)
(* are ISO texts of one format, which SQLite orders as the instants.       *)
(***************************************************************************)
DaySeconds == 86400

\* the months of 2025
MonthLengths == <<31, 28, 31, 30, 31, 30, 31, 31, 30, 31, 30, 31>>

RECURSIVE DayOfMonthFrom(_, _)
DayOfMonthFrom(n, month) ==
    IF n <= MonthLengths[month] THEN n
    ELSE DayOfMonthFrom(n - MonthLengths[month], month + 1)

\* datetime.day of the n-th day of 2025
DayOfMonth(n) == DayOfMonthFrom(n, 1)

\* `datetime.now().replace(hour=0, minute=0, second=0, microsecond=0)`
Midnight(now) == (now.day - 1) * DaySeconds

\* `cutoff_date.replace(day=cutoff_date.day - days if cutoff_date.day > days else 1)`
cutoff_date(now, days) ==
    IF DayOfMonth(now.day) > days
    THEN Midnight(now) - days * DaySeconds
    ELSE Midnight(now) - (DayOfMonth(now.day) - 1) * DaySeconds

\* `DELETE FROM uploaded_records WHERE timestamp < ?`, and cursor.rowcount
delete_old_records(d, now, days) ==
    LET old == {row \in d.rows : row.timestamp < cutoff_date(now, days)}
    IN [db |-> [d EXCEPT !.rows = d.rows \ old], deleted |-> Cardinality(old)]

\* the current instant: any day of 2025, at midnight or at noon
Nows == [day : 1..365, second : {0, 43200}]
Instant(now) == (now.day - 1) * DaySeconds + now.second

\* values of days, 365 being the default
DaysValues == {1, 7, 30, 365}

\* ages of the row around `days` days: a day, half a day and a second less,
\* the same, a second, half a day and a day more
AgeOffsets == {-86400, -43200, -1, 0, 1, 43200, 86400}

InitRetention ==
    /\ InitNoProgram
    /\ \E now \in Nows, days \in DaysValues, offset \in AgeOffsets :
         fn_in = [now |-> now, days |-> days,
                  db |-> mark_as_uploaded(
                           EmptyDb,
                           Reading(Instant(now) - days * DaySeconds - offset,
                                   118, 78, 70, FALSE, FALSE, 1),
                           FALSE, FALSE).db]
    /\ fn_out = NotApplied

ApplyDeleteOldRecords ==
    /\ fn_out = NotApplied
    /\ fn_out' = delete_old_records(fn_in.db, fn_in.now, fn_in.days)
    /\ UNCHANGED <<ledgerVars, concVars, syncVars, protoVars, fn_in, rxVars, clientVars>>

NextRetention == ApplyDeleteOldRecords

SpecRetention == InitRetention /\ [][NextRetention]_vars

\* C25: delete_old_records(days) deletes the rows whose timestamp lies more
\* than `days` days before the current instant, keeps all other rows, and
\* returns the number of rows deleted.
C25_DeletesExactlyOlderThanDays ==
    fn_out # NotApplied =>
        /\ fn_out.db.rows \subseteq fn_in.db.rows
        /\ \A row \in fn_in.db.rows :
              (row \notin fn_out.db.rows) <=>
                 (row.timestamp < Instant(fn_in.now) - fn_in.days * DaySeconds)
        /\ fn_out.deleted = Cardinality(fn_in.db.rows \ fn_out.db.rows)

(***************************************************************************)
(* SpecRecord: HEM7361T.parse_record applied to the 16 bytes that hold a   *)
(* reading.  A timestamp is here the six arguments of datetime(...).       *)
(***************************************************************************)
Pow2(n) == 2 ^ n

\* bit i (MSB = 0) of int.from_bytes(data, "big")
BitOfBigEndian(data, i) == (data[(i \div 8) + 1] \div Pow2(7 - (i % 8))) % 2

\* bit i (MSB = 0) of int.from_bytes(data, "little"): the integer's bit
\* Len(data) * 8 - 1 - i sits in byte (that position) div 8 of data
BitOf(data, i) ==
    LET position == Len(data) * 8 - 1 - i
    IN (data[(position \div 8) + 1] \div Pow2(position % 8)) % 2

RECURSIVE BitsValue(_, _, _, _)
\* the bits first_bit..last_bit read as a number, the first the highest
BitsValue(Bit(_, _), data, first_bit, last_bit) ==
    IF first_bit > last_bit THEN 0
    ELSE Bit(data, last_bit) + 2 * BitsValue(Bit, data, first_bit, last_bit - 1)

\* mutant: device_endianness = "big"
extract_bits_big_endian(data, first_bit, last_bit) ==
    BitsValue(BitOfBigEndian, data, first_bit, last_bit)

\* _extract_bits: `(big_int >> (len(data) * 8 - (last_bit + 1))) & bitmask`
extract_bits(data, first_bit, last_bit) ==
    BitsValue(BitOf, data, first_bit, last_bit)

DateTime(year, month, day, hour, minute, second) ==
    [year |-> year, month |-> month, day |-> day, hour |-> hour,
     minute |-> minute, second |-> second]

IsLeap(year) == (year % 4 = 0 /\ year % 100 # 0) \/ year % 400 = 0

DaysInMonth(year, month) ==
    IF month = 2 /\ IsLeap(year) THEN 29 ELSE MonthLengths[month]

\* datetime(...) accepts its arguments
ValidDateTime(t) ==
    /\ t.month \in 1..12
    /\ t.day \in 1..DaysInMonth(t.year, t.month)
    /\ t.hour \in 0..23
    /\ t.minute \in 0..59
    /\ t.second \in 0..59

\* parse_record: the reading, or the ValueError of datetime(...)
parse_record(record_bytes) ==
    LET minute == extract_bits(record_bytes, 68, 73)
        second == Min(extract_bits(record_bytes, 74, 79), 59)
        mov == extract_bits(record_bytes, 80, 80) # 0
        ihb == extract_bits(record_bytes, 81, 81) # 0
        month == extract_bits(record_bytes, 82, 85)
        day == extract_bits(record_bytes, 86, 90)
        hour == extract_bits(record_bytes, 91, 95)
        year == extract_bits(record_bytes, 98, 103) + 2000
        pulse == extract_bits(record_bytes, 104, 111)
        diastolic == extract_bits(record_bytes, 112, 119)
        systolic == extract_bits(record_bytes, 120, 127) + 25
        timestamp == DateTime(year, month, day, hour, minute, second)
    IN IF ~ValidDateTime(timestamp)
       THEN [raised |-> TRUE, reading |-> <<>>]
       ELSE [raised |-> FALSE,
             reading |-> Reading(timestamp, systolic, diastolic, pulse, ihb, mov, 1)]

Flag(b) == IF b THEN 1 ELSE 0

\* the record the device stores for a reading, byte by byte: systolic - 25,
\* diastolic, pulse, year - 2000, then the 16-bit words (low byte first)
\* mov|ihb|month|day|hour and 0000|minute|second, then eight bytes of
\* other data
RecordOf(r, filler) ==
    LET date_word == Flag(r.body_movement) * 32768
                     + Flag(r.irregular_heartbeat) * 16384
                     + r.timestamp.month * 1024 + r.timestamp.day * 32
                     + r.timestamp.hour
        time_word == r.timestamp.minute * 64 + r.timestamp.second
    IN <<r.systolic - 25, r.diastolic, r.pulse, r.timestamp.year - 2000,
         date_word % 256, date_word \div 256,
         time_word % 256, time_word \div 256>> \o Repeat(filler, 8)

\* readings at the ends and inside of every field's range
RecordReadings ==
    {Reading(DateTime(year, month, day, hour, minute, second),
             sys, dia, pulse, ihb, mov, 1) :
        year \in {2000, 2025, 2063}, month \in {1, 12}, day \in {1, 26, 31},
        hour \in {0, 23}, minute \in {0, 59}, second \in {0, 59},
        sys \in {25, 139, 280}, dia \in {0, 83, 255}, pulse \in {0, 73, 255},
        ihb \in BOOLEAN, mov \in BOOLEAN}

InitRecord ==
    /\ InitNoProgram
    /\ fn_in \in [reading : RecordReadings, filler : {0, 255}]
    /\ fn_out = NotApplied

ApplyParseRecord ==
    /\ fn_out = NotApplied
    /\ fn_out' = parse_record(RecordOf(fn_in.reading, fn_in.filler))
    /\ UNCHANGED <<ledgerVars, concVars, syncVars, protoVars, fn_in, rxVars, clientVars>>

NextRecord == ApplyParseRecord

SpecRecord == InitRecord /\ [][NextRecord]_vars

\* C26: parse_record applied to the 16-byte record of a reading whose
\* fields fit the bit fields returns that reading.
C26_ParseRecordRoundTrip ==
    fn_out # NotApplied =>
        fn_out = [raised |-> FALSE, reading |-> fn_in.reading]

\* a record with both flags set: 2025-12-26
\* 23:59:00, 139/83, pulse 73
C26_Witness ==
    /\ fn_out # NotApplied
    /\ fn_in.reading = Reading(DateTime(2025, 12, 26, 23, 59, 0),
                               139, 83, 73, TRUE, TRUE, 1)
    /\ RecordOf(fn_in.reading, 255)
         = <<114, 83, 73, 25, 87, 243, 192, 14>> \o Repeat(255, 8)
    /\ fn_out.reading = fn_in.reading

(***************************************************************************)
(* SpecRx: OmronBLEProtocol._rx_callback with its channel buffers.  The    *)
(* device sends a frame as fragments of 16 bytes on RX0..RX3, one          *)
(* notification each, and the notifications of a frame arrive in any       *)
(* order; the next frame is sent when the last one has arrived whole.      *)
(***************************************************************************)
\* mutant: the callback looks at RX0 only
required_rx_channels_first_only(packet_size) == 1

\* `range((packet_size + 15) // 16)`
required_rx_channels(packet_size) == (packet_size + 15) \div 16

\* the fragment of a frame for a channel; the device may fill the last
\* fragment up to 16 bytes
Fragment(frame, channel_id) ==
    LET part == Slice(frame.bytes, 16 * channel_id, 16 * (channel_id + 1))
    IN IF frame.padded THEN part \o Repeat(0, 16 - Len(part)) ELSE part

\* `for ch_idx in required_channels: combined_rx += ...`, then
\* `combined_rx[:packet_size]`
combined_rx_of(buffer, packet_size) ==
    Slice(Flatten([ch \in 1..required_rx_channels(packet_size) |-> buffer[ch]]),
          0, packet_size)

\* a frame of the given size that answers a read: its size, type 0x8100, an
\* address, the payload's length, the payload 1, 2, 3 ..., a zero, the CRC
RxFrameOfSize(size) ==
    WithCrc(<<size>> \o TYPE_READ \o address_bytes(user_start_addresses[1])
            \o <<size - 8>> \o [i \in 1..(size - 8) |-> i] \o <<0>>)

\* a frame with a bit of its byte at index flipped on the way
corrupted_at(frame, index) ==
    [i \in 1..Len(frame) |-> IF i = index THEN BitXor(frame[i], 1) ELSE frame[i]]

\* sizes of one, two, three and four fragments, with a full and a short
\* last fragment
RxFrameSizes == {8, 16, 17, 33, 64}

\* the frames as sent, and as received with a flipped bit in the first
\* fragment (byte 4) or in the last byte
RxFrames ==
    {RxFrameOfSize(size) : size \in RxFrameSizes}
    \cup {corrupted_at(RxFrameOfSize(size), 5) : size \in RxFrameSizes}
    \cup {corrupted(RxFrameOfSize(size)) : size \in RxFrameSizes}

\* the protocol's fields that _rx_callback leaves alone
ProtoRest == <<caller, config, driver_args, settings, read_args, program, ip,
               ppc, rx_notify_enabled, rx_last, handed, sleep_parity, retries,
               current_timeout, ch_idx, tx_log, wire, session, written, outcome,
               returned, read_data, rx_rejected>>

InitRx ==
    /\ InitNoProgram
    /\ InitFnVars

\* the device sends its next frame; it answers a command, whose
\* _send_and_wait has cleared _rx_finished
DeviceSendsFrame ==
    /\ rx_air = {}
    /\ rx_sent < MaxFrames
    /\ \E bytes \in RxFrames, padded \in BOOLEAN :
         /\ rx_frame' = [bytes |-> bytes, padded |-> padded,
                         clean |-> rx_channel_buffer = NoBuffers]
         /\ rx_air' = 0..(required_rx_channels(bytes[1]) - 1)
    /\ rx_order' = <<>>
    /\ rx_sent' = rx_sent + 1
    /\ rx_emitted' = <<>>
    /\ rx_raises' = 0
    /\ rx_finished' = FALSE
    /\ UNCHANGED <<ledgerVars, concVars, syncVars, fnVars, clientVars,
                   ProtoRest,
                   rx_channel_buffer, rx_packet_type, rx_eeprom_address,
                   rx_data_bytes>>

\* _rx_callback(char_handle, rx_bytes) for the fragment of a channel
RxFragment(channel_id) ==
    /\ channel_id \in rx_air
    /\ rx_air' = rx_air \ {channel_id}
    /\ rx_order' = Append(rx_order, channel_id)
    /\ LET buffer == [rx_channel_buffer EXCEPT
                         ![channel_id + 1] = Fragment(rx_frame, channel_id)]
       IN IF buffer[1] = None
          THEN \* `if self._rx_channel_buffer[0] is None: return`
               /\ rx_channel_buffer' = buffer
               /\ UNCHANGED <<rx_emitted, rx_raises, rx_finished, rx_packet_type,
                              rx_eeprom_address, rx_data_bytes>>
          ELSE LET packet_size == buffer[1][1]
               IN IF \E ch \in 1..required_rx_channels(packet_size) :
                        buffer[ch] = None
                  THEN \* `return  # Wait for more packets`
                       /\ rx_channel_buffer' = buffer
                       /\ UNCHANGED <<rx_emitted, rx_raises, rx_finished,
                                      rx_packet_type, rx_eeprom_address,
                                      rx_data_bytes>>
                  ELSE LET combined_rx == combined_rx_of(buffer, packet_size)
                           rx == rx_callback(combined_rx)
                       IN IF rx.raised
                          THEN \* `raise ValueError("Data corruption in RX ...")`
                               /\ rx_channel_buffer' = buffer
                               /\ rx_raises' = rx_raises + 1
                               /\ UNCHANGED <<rx_emitted, rx_finished,
                                              rx_packet_type, rx_eeprom_address,
                                              rx_data_bytes>>
                          ELSE /\ rx_packet_type' = rx.packet_type
                               /\ rx_eeprom_address' = rx.eeprom_address
                               /\ rx_data_bytes' = rx.data_bytes
                               /\ rx_channel_buffer' = NoBuffers
                               /\ rx_finished' = TRUE
                               /\ rx_emitted' = Append(rx_emitted, combined_rx)
                               /\ UNCHANGED rx_raises
    /\ UNCHANGED <<ledgerVars, concVars, syncVars, fnVars, clientVars,
                   ProtoRest, rx_frame,
                   rx_sent>>

NextRx ==
    \/ DeviceSendsFrame
    \/ \E channel_id \in 0..3 : RxFragment(channel_id)

SpecRx == InitRx /\ [][NextRx]_vars

\* the frame under way was sent with a sound CRC
Sound(frame) == frame.bytes # <<>> /\ xor_crc(frame.bytes) = 0

\* what _rx_callback has done with the frame under way, judged against the
\* fragments of that frame that have arrived
EmittedOnceWhenComplete ==
    /\ rx_raises = 0
    /\ (rx_air # {}) =>
          /\ rx_emitted = <<>>
          /\ ~rx_finished
          /\ \A ch \in 0..3 :
                (rx_channel_buffer[ch + 1] # None) <=>
                    (ch < required_rx_channels(rx_frame.bytes[1])
                       /\ ch \notin rx_air)
    /\ (rx_air = {}) =>
          /\ rx_emitted = <<rx_frame.bytes>>
          /\ Len(rx_frame.bytes) = rx_frame.bytes[1]
          /\ rx_finished
          /\ rx_channel_buffer = NoBuffers
          /\ rx_packet_type = Slice(rx_frame.bytes, 1, 3)
          /\ rx_eeprom_address = Slice(rx_frame.bytes, 3, 5)

\* C27: a frame of declared size s sent with a sound CRC is stored by
\* _rx_callback exactly once, when the last of its ceil(s/16) fragments
\* arrives, whatever the order of arrival; what is stored are the fragments
\* in channel order cut to s bytes, and all four slots are then empty.
C27_FrameEmittedOnceWhenComplete ==
    Sound(rx_frame) => EmittedOnceWhenComplete

\* the same for a frame whose first fragment meets four empty slots
FrameOnEmptySlotsEmittedOnce ==
    (Sound(rx_frame) /\ rx_frame.clean) => EmittedOnceWhenComplete

\* a frame of 64 bytes has arrived whole on empty slots, its fragment on RX0
\* last, and has been stored once
FrameOnEmptySlotsArrived ==
    /\ Sound(rx_frame)
    /\ rx_frame.clean
    /\ rx_frame.bytes[1] = 64
    /\ rx_air = {}
    /\ rx_order = <<3, 1, 2, 0>>
    /\ rx_emitted = <<rx_frame.bytes>>
    /\ rx_channel_buffer = NoBuffers

(***************************************************************************)
(* SpecProto: frames that fail the CRC check.                              *)
(***************************************************************************)
\* the step is _rx_callback's, called with a reassembled frame whose bytes do
\* not XOR to 0
RxCallbackRejects ==
    /\ wire # <<>>
    /\ wire' = Tail(wire)
    /\ rx_notify_enabled
    /\ xor_crc(Head(wire).bytes) # 0

\* the step leaves the wait loop of _send_and_wait though no response has
\* been stored
WaitEndsUnanswered == ppc = "wait" /\ ~rx_finished /\ ppc' # "wait"

\* C28: a reassembled frame whose bytes do not XOR to 0 is never delivered to
\* the waiting operation: _rx_callback leaves the finished flag and the
\* stored response type, address and payload as they were and the operation
\* where it was, no frame ever stored fails the CRC, and a wait without a
\* stored response ends only by its timeout, with a retransmission while
\* fewer than max_retries transmissions have timed out and with
\* TimeoutError at the last.
C28_CorruptedFrameNotDelivered ==
    /\ [][RxCallbackRejects =>
             /\ UNCHANGED <<rx_finished, rx_packet_type, rx_eeprom_address,
                            rx_data_bytes, rx_last>>
             /\ UNCHANGED <<ppc, ip, retries, outcome, returned, read_data>>
             /\ rx_rejected' = rx_rejected + 1]_vars
    /\ [](rx_last.via = "rx" => xor_crc(rx_last.bytes) = 0)
    /\ [][WaitEndsUnanswered =>
             /\ current_timeout' < 0
             /\ retries' = retries + 1
             /\ retries' <= max_retries
             /\ IF retries' < max_retries
                THEN ppc' = "tx" /\ ip' = ip /\ outcome' = outcome
                ELSE outcome' = "timeout"]_vars

\* every transmission of a start_transmission call was answered by a frame
\* with a flipped bit: each was rejected, nothing was ever stored and the
\* call ended with TimeoutError after max_retries transmissions
C28_Witness ==
    /\ rx_rejected = max_retries
    /\ retries = max_retries
    /\ outcome = "timeout"
    /\ ~rx_finished
    /\ rx_packet_type = None
    /\ rx_last = NoFrame

(***************************************************************************)
(* SpecCommand: the frames the protocol builds for the device.             *)
(***************************************************************************)
\* int.to_bytes(length, "big") returns: the value is not negative and fits
to_bytes_fits(value, length) == value >= 0 /\ value < 256 ^ length

\* `address.to_bytes(2, "big")`, `block_size.to_bytes(1, "big")`,
\* `(len(data) + 8).to_bytes(1, "big")` of an int that does not fit
OverflowError == [raised |-> TRUE, value |-> <<>>]

\* the command start_transmission, end_transmission, read_eeprom_block or
\* write_eeprom_block hands to _send_and_wait, or the error raised while it
\* is built
built_command(op) ==
    CASE op.verb = "read" ->
           IF to_bytes_fits(op.address, 2) /\ to_bytes_fits(op.size, 1)
           THEN Returns(command_of(op)) ELSE OverflowError
      [] op.verb = "write" ->
           IF to_bytes_fits(Len(op.data) + 8, 1) /\ to_bytes_fits(op.address, 2)
           THEN Returns(command_of(op)) ELSE OverflowError
      [] OTHER -> Returns(command_of(op))

\* addresses at the ends of the 16-bit range and beyond, and the device's
CommandAddresses == {-1, 0, user_start_addresses[1], 256 ^ 2 - 1, 256 ^ 2}

\* lengths at the ends of the 8-bit range and beyond
CommandBlockSizes == {-1, 0, 1, transmission_block_size, 256 - 1, 256}

\* payloads of no byte, of one, of a fragment's 16 less the frame's 8, of a
\* block, and of the longest frame's 247 and one more; of zeros, of 0xff
\* and of the bytes 1, 2, 3 ...
CommandPayloads ==
    UNION {{Repeat(0, n), Repeat(256 - 1, n), [i \in 1..n |-> i % 256]} :
             n \in {0, 1, transmission_block_size - 8, transmission_block_size,
                    256 - 9, 256 - 8}}

CommandCalls ==
    {StartCall, EndCall}
    \cup {ReadCall(address, size) :
            address \in CommandAddresses, size \in CommandBlockSizes}
    \cup {WriteCall(address, data) :
            address \in CommandAddresses, data \in CommandPayloads}

InitCommand ==
    /\ InitNoProgram
    /\ fn_in \in CommandCalls
    /\ fn_out = NotApplied

ApplyBuildCommand ==
    /\ fn_out = NotApplied
    /\ fn_out' = built_command(fn_in)
    /\ UNCHANGED <<ledgerVars, concVars, syncVars, protoVars, fn_in, rxVars, clientVars>>

NextCommand == ApplyBuildCommand

SpecCommand == InitCommand /\ [][NextCommand]_vars

\* C29: every frame the protocol builds for the device (start_transmission,
\* end_transmission, read_eeprom_block for a 16-bit address and an 8-bit
\* length, write_eeprom_block for an address and a payload) has byte 0 equal
\* to its total length and the XOR of all its bytes equal to 0; a read of a
\* 16-bit address and an 8-bit length always builds its frame.
C29_OutboundFramesLengthAndCrc ==
    fn_out # NotApplied =>
        /\ ~fn_out.raised =>
              /\ fn_out.value[1] = Len(fn_out.value)
              /\ xor_crc(fn_out.value) = 0
        /\ (fn_in.verb = "read" /\ fn_in.address \in 0..(256 ^ 2 - 1)
              /\ fn_in.size \in 0..(256 - 1)) => ~fn_out.raised
        /\ fn_in.verb \in {"start", "end"} => ~fn_out.raised

\* the longest frame write_eeprom_block can build, 255 bytes for a payload
\* of 247, has been built for the highest address
C29_Witness ==
    /\ fn_in.verb = "write"
    /\ fn_in.address = 256 ^ 2 - 1
    /\ Len(fn_in.data) = 256 - 9
    /\ fn_out # NotApplied
    /\ ~fn_out.raised
    /\ Len(fn_out.value) = 256 - 1

(***************************************************************************)
(* SpecProto: read_continuous.                                             *)
(***************************************************************************)
\* the read_eeprom_block calls of the read_continuous call under way
BlockReads == Tail(program)

\* the sizes of the first k of them
BlockSizes(k) == [j \in 1..k |-> BlockReads[j].size]

\* read_continuous has returned
ReadContinuousReturned == caller = "read_continuous" /\ ppc = "done"

\* C30: read_continuous(start, n, block) issues its block reads at strictly
\* ascending, contiguous addresses that cover [start, start + n) exactly
\* once, each of at most block bytes, ceil(n / block) of them and none when
\* n = 0; it appends each block's result as the block returns, and what it
\* returns has length n.
C30_ReadContinuousCoversRange ==
    /\ [](caller = "read_continuous" =>
            LET n == read_args.bytes_to_read
                block == read_args.block_size
            IN /\ Len(BlockReads) = (n + block - 1) \div block
               /\ \A k \in 1..Len(BlockReads) :
                     /\ BlockReads[k].verb = "read"
                     /\ BlockReads[k].size \in 1..block
                     /\ BlockReads[k].address
                          = read_args.start_address + Sum(BlockSizes(k - 1))
               /\ Sum(BlockSizes(Len(BlockReads))) = n
               /\ ReadContinuousReturned => Len(read_data) = n)
    /\ [][(caller = "read_continuous" /\ ip' = ip + 1 /\ ip > 1) =>
             /\ returned' # None
             /\ read_data' = read_data \o returned'[1]]_vars

(***************************************************************************)
(* SpecProto: the write blocks the driver sends.                           *)
(***************************************************************************)
\* C31: every EEPROM write block handed to _send_and_wait carries at most 8
\* payload bytes and its frame fits in one 16-byte fragment, whichever
\* caller wrote it (the reset-unread and the time-sync write included).
C31_WriteBlocksFitOneFragment ==
    (ppc = "tx" /\ program[ip].verb = "write") =>
        /\ Len(program[ip].data) <= 8
        /\ Len(command_of(program[ip])) <= 16
        /\ required_tx_channels(command_of(program[ip])) = 1

(***************************************************************************)
(* SpecRing: _calc_ring_buffer_read, applied to a ring of any cursor and   *)
(* unread count.                                                           *)
(***************************************************************************)
\* records_per_user of HEM7361T
HEM7361T_records_per_user == 100

\* the rings planned for: small ones and the device's
RingCapacities == {1, 2, 3, HEM7361T_records_per_user}

RingInputs ==
    UNION {[user : Users, max_records : {capacity},
            last_slot : 0..capacity, unread : 0..capacity] :
              capacity \in RingCapacities}

InitRing ==
    /\ InitNoProgram
    /\ fn_in \in RingInputs
    /\ fn_out = NotApplied

ApplyCalcRingBufferRead ==
    /\ fn_out = NotApplied
    /\ fn_out' = Some(calc_ring_buffer_read_of(user_start_addresses[fn_in.user],
                                               fn_in.max_records, fn_in.unread,
                                               fn_in.last_slot))
    /\ UNCHANGED <<ledgerVars, concVars, syncVars, protoVars, fn_in, rxVars, clientVars>>

NextRing == ApplyCalcRingBufferRead

SpecRing == InitRing /\ [][NextRing]_vars

\* the plan returned for fn_in, and the ring it is for
Plan == fn_out[1]
RingStart == user_start_addresses[fn_in.user]
RingEnd == RingStart + fn_in.max_records * record_byte_size
PlanIs(chunks) == fn_out # NotApplied /\ Plan = chunks
Chunk(address, size) == [address |-> address, size |-> size]

\* C32: for every user slot and every last_slot and unread in 0..capacity the
\* chunks of _calc_ring_buffer_read have sizes that sum to unread x
\* record_byte_size, lie inside [start_addr, start_addr + capacity x
\* record_byte_size) and do not overlap; capacity 100, last_slot 5, unread 20
\* gives {start, 5 x 16}, {start + 85 x 16, 15 x 16} and last_slot 50, unread
\* 10 gives {start + 40 x 16, 10 x 16}.
C32_ChunksCoverUnreadInsideRing ==
    fn_out # NotApplied =>
        /\ Sum([k \in 1..Len(Plan) |-> Plan[k].size])
             = fn_in.unread * record_byte_size
        /\ \A k \in 1..Len(Plan) :
              /\ Plan[k].size >= 0
              /\ Plan[k].address >= RingStart
              /\ Plan[k].address + Plan[k].size <= RingEnd
        /\ \A j, k \in 1..Len(Plan) :
              j < k => \/ Plan[j].address + Plan[j].size <= Plan[k].address
                       \/ Plan[k].address + Plan[k].size <= Plan[j].address
        /\ (fn_in.max_records = 100 /\ fn_in.last_slot = 5 /\ fn_in.unread = 20)
              => Plan = <<Chunk(RingStart, 5 * 16), Chunk(RingStart + 85 * 16, 15 * 16)>>
        /\ (fn_in.max_records = 100 /\ fn_in.last_slot = 50 /\ fn_in.unread = 10)
              => Plan = <<Chunk(RingStart + 40 * 16, 10 * 16)>>

\* the plan of the second user's ring of 100 slots with the cursor at 5 and
\* 20 unread records has been computed: two chunks, the second up to the
\* ring's end
C32_Witness ==
    /\ fn_in = [user |-> 2, max_records |-> 100, last_slot |-> 5, unread |-> 20]
    /\ PlanIs(<<Chunk(1752, 80), Chunk(1752 + 1360, 240)>>)

\* the ring slots a chunk covers, in the order read_continuous reads them
SlotsOf(chunk) ==
    [j \in 1..(chunk.size \div record_byte_size) |->
        (chunk.address - RingStart) \div record_byte_size + j - 1]

\* get_all_records: `for cmd in user_commands: user_data += read_continuous(...)`:
\* the slots whose records make up user_data, in order
SlotsRead == Flatten([k \in 1..Len(Plan) |-> SlotsOf(Plan[k])])

\* the device writes its records to successive slots and wraps at the ring's
\* end, last_slot being the slot after the newest record: the number of
\* records written since the one in the slot, that one included
AgeOf(slot) ==
    ((fn_in.max_records + fn_in.last_slot - 1 - slot) % fn_in.max_records) + 1

\* the records read are the unread ones, oldest first
ChronologicalOrder ==
    /\ Len(SlotsRead) = fn_in.unread
    /\ \A j \in 1..Len(SlotsRead) : AgeOf(SlotsRead[j]) = fn_in.unread - j + 1

\* C33: in the wrap case (last_slot < unread) the two chunks, read in the
\* plan's order and concatenated as get_all_records does, yield the unread
\* records in chronological ring order, oldest first.
C33_WrapReadIsChronological ==
    (fn_out # NotApplied /\ fn_in.last_slot < fn_in.unread) => ChronologicalOrder

\* the same where the plan is a single chunk, or a wrap whose first chunk
\* is empty
SingleChunkReadIsChronological ==
    (fn_out # NotApplied /\ (fn_in.last_slot >= fn_in.unread \/ fn_in.last_slot = 0))
        => ChronologicalOrder

\* the read_eeprom_block calls get_all_records makes for the plan
BlockReadsOfPlan ==
    Flatten([k \in 1..Len(Plan) |->
        read_continuous(Plan[k].address, Plan[k].size, transmission_block_size)])

\* the plan has been computed for a slot without unread records
ZeroUnread == fn_out # NotApplied /\ fn_in.unread = 0

\* C34, as stated: when a slot's unread count is 0 its plan has no chunk and
\* no EEPROM read block is issued for the slot.
C34_ZeroUnreadNoChunks ==
    ZeroUnread => (Plan = <<>> /\ BlockReadsOfPlan = <<>>)

\* C34: when a slot's unread count is 0 its plan is one chunk of size 0 at
\* the cursor, and no EEPROM read block is issued for the slot; a slot with
\* one to three unread records has a read block issued.
C34_ZeroUnreadNoBlockRead ==
    /\ ZeroUnread =>
          /\ Plan = <<Chunk(RingStart + fn_in.last_slot * record_byte_size, 0)>>
          /\ BlockReadsOfPlan = <<>>
    /\ (fn_out # NotApplied /\ fn_in.unread \in 1..3) => BlockReadsOfPlan # <<>>

\* the plan of a ring of 100 slots with the cursor at 50 and nothing unread
\* has been computed
C34_Witness ==
    /\ ZeroUnread
    /\ fn_in.max_records = 100
    /\ fn_in.last_slot = 50
    /\ Len(Plan) = 1
    /\ Plan[1].size = 0

(***************************************************************************)
(* SpecSettings: _cache_settings and the two writes built from the cache,  *)
(* applied to what the two reads of the settings returned.                 *)
(***************************************************************************)
\* `self._cached_settings[start:end] = data`: the slice is replaced by data,
\* whatever its length
slice_assign(cached, start, end, data) ==
    Slice(cached, 0, start) \o data \o Slice(cached, end, Len(cached))

\* _cache_settings: settings_size zero bytes, then the two sections read
cached_settings(unread_data, time_data) ==
    LET settings_size == settings_write_address - settings_read_address
        zeros == Repeat(0, settings_size)
        with_unread == slice_assign(zeros, settings_unread_records_bytes[1],
                                    settings_unread_records_bytes[2], unread_data)
    IN slice_assign(with_unread, settings_time_sync_bytes[1],
                    settings_time_sync_bytes[2], time_data)

\* `self._cached_settings[start:end]` of a section
section_of(cached, bounds) == Slice(cached, bounds[1], bounds[2])

\* what read_continuous returned for the unread-records section: the section
\* of a device whose users have a cursor and unread records, with its last 8
\* bytes zero or not; 16 bytes of 0xff; and a section one byte short
UnreadDataRead ==
    LET whole == {Slice(UnreadSection(<<UnreadInfo(l1, u1), UnreadInfo(l2, u2)>>), 0, 8)
                  \o tail : l1 \in 0..2, u1 \in 0..2, l2 \in {0, 99}, u2 \in {0, 1},
                            tail \in {Repeat(0, 8), <<1, 2, 3, 4, 5, 6, 7, 8>>}}
    IN whole \cup {Repeat(255, 16)} \cup {Slice(d, 0, 15) : d \in whole}

\* what read_continuous returned for the time-sync section
TimeDataRead == {TimeSection, [i \in 1..16 |-> 16 * i - 1]}

InitSettings ==
    /\ InitNoProgram
    /\ fn_in \in [unread_data : UnreadDataRead, time_data : TimeDataRead]
    /\ fn_out = NotApplied

\* _cache_settings, then _reset_unread_counters: the write_eeprom_block calls
ApplyResetUnreadCounters ==
    /\ fn_out = NotApplied
    /\ fn_out' = Some(reset_unread_counters(
                        section_of(cached_settings(fn_in.unread_data, fn_in.time_data),
                                   settings_unread_records_bytes)))
    /\ UNCHANGED <<ledgerVars, concVars, syncVars, protoVars, fn_in, rxVars, clientVars>>

NextSettings == ApplyResetUnreadCounters

SpecSettings == InitSettings /\ [][NextSettings]_vars

\* the bytes the write calls carry, in order
BytesWritten == Flatten([k \in 1..Len(fn_out[1]) |-> fn_out[1][k].data])

\* the write calls start at the address and follow one another
WritesStartAt(address) ==
    \A k \in 1..Len(fn_out[1]) :
        /\ fn_out[1][k].verb = "write"
        /\ fn_out[1][k].address
             = address + Len(Flatten([j \in 1..(k - 1) |-> fn_out[1][j].data]))

\* the write carries the section read with its bytes 4..7 replaced by the
\* sentinel 0x8000, little-endian, twice
WritesSectionReadWithSentinels ==
    /\ WritesStartAt(settings_write_address + settings_unread_records_bytes[1])
    /\ Len(BytesWritten)
         = settings_unread_records_bytes[2] - settings_unread_records_bytes[1]
    /\ Slice(BytesWritten, 4, 8) = <<0, 128, 0, 128>>
    /\ \A i \in 1..Len(BytesWritten) :
          i \notin 5..8 => /\ i <= Len(fn_in.unread_data)
                           /\ BytesWritten[i] = fn_in.unread_data[i]

\* C35: the reset-unread write sends, to settings_write_address plus the
\* unread section's offset, the unread section as read from the device with
\* only its bytes 4..7 replaced by the sentinel 0x8000 in the device's byte
\* order; every other byte written is the byte read from the device.
C35_ResetWritePreservesSection ==
    fn_out # NotApplied => WritesSectionReadWithSentinels

\* the same where the read of the section returned the bytes asked for
ResetWritePreservesWholeSection ==
    (fn_out # NotApplied /\ Len(fn_in.unread_data) = 16)
        => WritesSectionReadWithSentinels

(***************************************************************************)
(* SpecProto: the order of get_all_records' reads and writes.              *)
(***************************************************************************)
\* the caller is get_all_records of the driver
DriverRuns == caller \in {"read_from_device", "read_records"}

\* the call under way is a write_eeprom_block that has been entered
WriteUnderWay ==
    ip <= Len(program) /\ program[ip].verb = "write" /\ ppc \in {"tx", "wait"}

\* get_all_records has raised out of a read_eeprom_block call
ReadRaised == ppc = "raised" /\ program[ip].verb = "read"

TimeSyncSections ==
    {section_of(cached_settings(unread_data, time_data), settings_time_sync_bytes) :
        unread_data \in {Repeat(0, 16), Repeat(0, 15)},
        time_data \in {TimeSection, Repeat(255, 16), [i \in 1..16 |-> 16 * i - 1],
                       [i \in 1..15 |-> 16 * i - 1]}}

\* instants at the ends of the years 2000..2063 and of each field
TimeSyncInstants ==
    {DateTime(year, month, day, hour, minute, second) :
        year \in {2000, 2024, 2063}, month \in {1, 2, 12}, day \in {1, 28, 31},
        hour \in {0, 23}, minute \in {0, 59}, second \in {0, 59}}
    \cap {t \in [year : {2000, 2024, 2063}, month : 1..12, day : 1..31,
                 hour : 0..23, minute : 0..59, second : 0..59] : ValidDateTime(t)}

InitTimeSync ==
    /\ InitNoProgram
    /\ fn_in \in [section : TimeSyncSections, current_time : TimeSyncInstants]
    /\ fn_out = NotApplied

ApplyGetTimeSyncBytes ==
    /\ fn_out = NotApplied
    /\ fn_out' = Some(get_time_sync_bytes_at(fn_in.section, fn_in.current_time))
    /\ UNCHANGED <<ledgerVars, concVars, syncVars, protoVars, fn_in, rxVars, clientVars>>

NextTimeSync == ApplyGetTimeSyncBytes

SpecTimeSync == InitTimeSync /\ [][NextTimeSync]_vars

\* C37: for any cached settings and any instant of the years 2000..2063 the
\* time-sync payload has 16 bytes: bytes 0..7 are bytes 0..7 of the cached
\* time-sync section, bytes 8..13 are year - 2000, month, day, hour, minute,
\* second, byte 14 is the sum of bytes 0..13 modulo 256 and byte 15 is 0.
C37_TimeSyncPayload ==
    fn_out # NotApplied =>
        LET payload == fn_out[1]
            t == fn_in.current_time
        IN /\ Len(payload) = 16
           /\ \A i \in 1..16 : payload[i] \in 0..255
           /\ Slice(payload, 0, 8) = Slice(fn_in.section, 0, 8)
           /\ Slice(payload, 8, 14)
                = <<t.year - 2000, t.month, t.day, t.hour, t.minute, t.second>>
           /\ payload[15] = Sum(Slice(payload, 0, 14)) % 256
           /\ payload[16] = 0

\* the payload for 2063-12-31 23:59:59 on a section of 0xff has been built:
\* its bytes sum to 2287 and its checksum is 239
C37_Witness ==
    /\ fn_in.section = Repeat(255, 16)
    /\ fn_in.current_time = DateTime(2063, 12, 31, 23, 59, 59)
    /\ fn_out # NotApplied
    /\ fn_out[1] = Repeat(255, 8) \o <<63, 12, 31, 23, 59, 59, 239, 0>>

(***************************************************************************)
(* SpecDecode: the decoding loop of get_all_records, applied to the data   *)
(* read for each user slot.                                                *)
(***************************************************************************)
\* chunks of record_byte_size in the data of one user slot, at most
MaxChunks == 2

\* parse_record(bytes(record_bytes)) of a chunk: a chunk shorter than a
\* record makes _extract_bits shift by a negative count, a ValueError
parse_chunk(record_bytes) ==
    IF Len(record_bytes) < record_byte_size
    THEN [raised |-> TRUE, reading |-> <<>>]
    ELSE parse_record(record_bytes)

RECURSIVE decode_from_stops_at_error(_, _, _)
\* the loop leaving at the first chunk whose decoding raises
decode_from_stops_at_error(user_idx, user_data, offset) ==
    IF offset >= Len(user_data) THEN <<>>
    ELSE LET record_bytes == Slice(user_data, offset, offset + record_byte_size)
             rest == decode_from_stops_at_error(user_idx, user_data,
                                                offset + record_byte_size)
             parsed == parse_chunk(record_bytes)
         IN IF record_bytes = Repeat(255, record_byte_size) THEN rest
            ELSE IF parsed.raised THEN <<>>
            ELSE <<[parsed.reading EXCEPT !.user_slot = user_idx + 1]>> \o rest

RECURSIVE decode_from(_, _, _)
\* get_all_records: `for offset in range(0, len(user_data), record_byte_size)`
\* from offset on: an all-0xff chunk is skipped by `continue`, a chunk whose
\* parse_record raises by `except Exception`, any other is appended with
\* `reading.user_slot = user_idx + 1`
decode_from(user_idx, user_data, offset) ==
    IF offset >= Len(user_data) THEN <<>>
    ELSE LET record_bytes == Slice(user_data, offset, offset + record_byte_size)
             rest == decode_from(user_idx, user_data, offset + record_byte_size)
             parsed == parse_chunk(record_bytes)
         IN IF record_bytes = Repeat(255, record_byte_size) THEN rest
            ELSE IF parsed.raised THEN rest
            ELSE <<[parsed.reading EXCEPT !.user_slot = user_idx + 1]>> \o rest

\* get_all_records: all_user_records, from the user_data of each slot
decode_all(all_user_data) ==
    [u \in 1..Len(all_user_data) |-> decode_from(u - 1, all_user_data[u], 0)]

\* two measurements as the device stores them, an empty slot, and a record
\* of zeros, whose month 0 makes datetime(...) raise
ChunkA ==
    RecordOf(Reading(DateTime(2025, 12, 26, 23, 59, 0), 139, 83, 73, TRUE, TRUE, 1), 255)
ChunkB ==
    RecordOf(Reading(DateTime(2024, 2, 29, 0, 0, 59), 118, 78, 60, FALSE, FALSE, 1), 0)
EmptyChunk == Repeat(255, record_byte_size)
BadChunk == Repeat(0, record_byte_size)
ChunkKinds == {ChunkA, ChunkB, EmptyChunk, BadChunk}

\* the data of a slot: up to MaxChunks whole chunks, or fewer followed by a
\* record cut one byte short
UserData ==
    {Flatten(chunks) : chunks \in SeqsUpTo(ChunkKinds, MaxChunks)}
    \cup {Flatten(chunks) \o Slice(ChunkA, 0, record_byte_size - 1) :
            chunks \in SeqsUpTo(ChunkKinds, MaxChunks - 1)}

InitDecode ==
    /\ InitNoProgram
    /\ fn_in \in [Users -> UserData]
    /\ fn_out = NotApplied

ApplyDecode ==
    /\ fn_out = NotApplied
    /\ fn_out' = Some(decode_all(fn_in))
    /\ UNCHANGED <<ledgerVars, concVars, syncVars, protoVars, fn_in, rxVars, clientVars>>

NextDecode == ApplyDecode

SpecDecode == InitDecode /\ [][NextDecode]_vars

\* the chunks of record_byte_size of a slot's data, the last one shorter if
\* the data ends inside it
ChunksOf(user_data) ==
    [k \in 1..((Len(user_data) + record_byte_size - 1) \div record_byte_size) |->
        Slice(user_data, (k - 1) * record_byte_size, k * record_byte_size)]

\* the chunk is neither all 0xff nor undecodable
Decodable(chunk) == chunk # EmptyChunk /\ ~parse_chunk(chunk).raised

\* C38: for each user slot u (0-based) get_all_records returns one reading
\* for each record_byte_size chunk of the slot's data that is neither all
\* 0xff nor undecodable, in chunk order, each with user_slot = u + 1; a chunk
\* whose decoding raises is left out without ending the decoding of the
\* chunks after it or of the other slots.
C38_OneReadingPerDecodableChunk ==
    fn_out # NotApplied =>
        /\ Len(fn_out[1]) = Len(fn_in)
        /\ \A u \in 1..Len(fn_in) :
              LET kept == SelectSeq(ChunksOf(fn_in[u]), Decodable)
              IN /\ Len(fn_out[1][u]) = Len(kept)
                 /\ \A j \in 1..Len(kept) :
                       fn_out[1][u][j]
                         = [parse_chunk(kept[j]).reading EXCEPT !.user_slot = u]

\* the first slot's data was a record of zeros followed by a measurement,
\* the second slot's an empty slot followed by another measurement: each
\* slot yields its one reading
C38_Witness ==
    /\ fn_in = <<BadChunk \o ChunkA, EmptyChunk \o ChunkB>>
    /\ fn_out # NotApplied
    /\ Len(fn_out[1][1]) = 1
    /\ fn_out[1][1][1].systolic = 139
    /\ fn_out[1][1][1].user_slot = 1
    /\ Len(fn_out[1][2]) = 1
    /\ fn_out[1][2][1].systolic = 118
    /\ fn_out[1][2][1].user_slot = 2

\* the call under way is a block read or a settings write of the driver
BlockStepUnderWay ==
    /\ DriverRuns
    /\ ppc \in {"tx", "wait"}
    /\ program[ip].verb \in {"read", "write"}

\* get_all_records has raised out of a block read or a settings write
BlockStepRaised ==
    /\ DriverRuns
    /\ ppc = "raised"
    /\ program[ip].verb \in {"read", "write"}

\* C39: when a step of get_all_records after a successful start_transmission
\* fails (a block read, the write that resets the unread counters, the
\* time-sync write), the error leaves get_all_records at that step: no
\* end_transmission has been or is called, and the session stays opened with
\* the RX notifications enabled.
C39_FailureAfterStartLeavesSessionOpen ==
    /\ [][(BlockStepUnderWay /\ outcome' \notin {"running", "ok"})
            => (ppc' = "raised" /\ ip' = ip)]_vars
    /\ [](BlockStepRaised =>
            /\ outcome \notin {"running", "ok"}
            /\ session = "opened"
            /\ rx_notify_enabled
            /\ \A j \in 1..ip : program[j].verb # "end")
    /\ [][BlockStepRaised => (BlockStepRaised' /\ ip' = ip)]_vars

\* the reset of the unread counters got no answer in max_retries attempts:
\* get_all_records raised with the session opened
C39_Witness ==
    /\ BlockStepRaised
    /\ program[ip].verb = "write"
    /\ outcome = "timeout"
    /\ session = "opened"
    /\ rx_notify_enabled

(***************************************************************************)
(* SpecClient: one device read of the orchestrator (main.py,               *)
(* read_from_device) or of the convenience function read_omron_device      *)
(* (client.py): a client is made, and inside try/finally connect and       *)
(* read_all_records_flat are awaited; the finally awaits disconnect.       *)
(***************************************************************************)
\* how connect() may end
ConnectOutcomes ==
    {"no_device", "connect_error", "not_omron", "not_omron_disconnect_raises", "ok"}

\* how read_all_records_flat may end: get_all_records' unlock_with_key,
\* its block reads and writes, its end_transmission
ReadOutcomes == {"ok", "unlock_failed", "read_failed", "end_failed"}

\* how BleakClient.disconnect may end: the assertion of the bluezdbus
\* backend, any other Exception
BleDisconnectOutcomes == {"ok", "assertion_error", "error"}

\* mutant: an error of BleakClient.disconnect leaves disconnect before the
\* fields are cleared
disconnect_lets_error_through(link, protocol, driver, ble) ==
    IF link = "connected" /\ ble # "ok"
    THEN [link |-> link, protocol |-> protocol, driver |-> driver,
          ble |-> ble, raised |-> TRUE]
    ELSE [link |-> "None", protocol |-> FALSE, driver |-> FALSE,
          ble |-> IF link = "connected" THEN ble ELSE "skipped", raised |-> FALSE]

\* OmronBLEClient.disconnect: `if self._client and self._client.is_connected:`
\* BleakClient.disconnect is awaited inside try, `except AssertionError` and
\* `except Exception` log a warning; then `self._client = None`,
\* `self._protocol = None`, `self._device_driver = None`
disconnect(link, protocol, driver, ble) ==
    [link |-> "None", protocol |-> FALSE, driver |-> FALSE,
     ble |-> IF link = "connected" THEN ble ELSE "skipped", raised |-> FALSE]

InitClient ==
    /\ InitLedgerVars
    /\ InitConcVars
    /\ InitSyncVars
    /\ InitProtoIdle
    /\ InitFnVars
    /\ InitRxVars
    /\ InitClientFields
    /\ mac_given \in BOOLEAN
    /\ \/ /\ reader = "read_from_device"
          /\ \E omron_config \in Configs :
                reader_args = [only_new |-> FALSE, sync_time |-> omron_config.sync_time]
       \/ /\ reader = "read_omron_device"
          /\ reader_args \in [only_new : BOOLEAN, sync_time : BOOLEAN]
    /\ cpc = "connect"

ClientFixed == <<ledgerVars, concVars, syncVars, protoVars, fnVars, rxVars, reader,
                 mac_given, reader_args>>

\* `await client.connect()`.  Without a MAC address the scan may find no
\* device before any BleakClient exists; with one, a BleakClient exists from
\* the start.  connect()'s `except Exception` disconnects a connected
\* BleakClient and re-raises; when that disconnect raises too, the
\* BleakClient is left connected or not.
ClientConnect ==
    /\ cpc = "connect"
    /\ \E how \in ConnectOutcomes :
         /\ bleak_client' \in
              CASE how = "no_device" ->
                     {IF mac_given THEN "unconnected" ELSE "None"}
                [] how = "connect_error" -> {"unconnected"}
                [] how = "not_omron" -> {"unconnected"}
                [] how = "not_omron_disconnect_raises" -> {"unconnected", "connected"}
                [] OTHER -> {"connected"}
         /\ client_protocol' = (how = "ok")
         /\ client_driver' = (how = "ok")
         /\ pending_error' = IF how = "ok" THEN "none" ELSE how
         /\ cpc' = IF how = "ok" THEN "read" ELSE "disconnect"
    /\ UNCHANGED <<ClientFixed, ble_disconnect, disconnects>>

\* `records = await client.read_all_records_flat(only_new, sync_time)`:
\* it returns or lets the error of get_all_records through; the device may
\* have dropped the link meanwhile
ClientRead ==
    /\ cpc = "read"
    /\ \E how \in ReadOutcomes :
         pending_error' = IF how = "ok" THEN "none" ELSE how
    /\ bleak_client' \in {"connected", "unconnected"}
    /\ cpc' = "disconnect"
    /\ UNCHANGED <<ClientFixed, client_protocol, client_driver, ble_disconnect,
                   disconnects>>

\* `finally: await client.disconnect()`, and the reader returns the records
\* or lets the pending exception go on
ClientDisconnect ==
    /\ cpc = "disconnect"
    /\ \E ble \in BleDisconnectOutcomes :
         LET res == disconnect(bleak_client, client_protocol, client_driver, ble)
         IN /\ bleak_client' = res.link
            /\ client_protocol' = res.protocol
            /\ client_driver' = res.driver
            /\ ble_disconnect' = res.ble
            /\ cpc' = IF res.raised \/ pending_error # "none" THEN "raised"
                      ELSE "returned"
    /\ disconnects' = disconnects + 1
    /\ UNCHANGED <<ClientFixed, pending_error>>

NextClient ==
    \/ ClientConnect
    \/ ClientRead
    \/ ClientDisconnect

SpecClient == InitClient /\ [][NextClient]_vars

\* OmronBLEClient.is_connected
is_connected == bleak_client = "connected"

\* the client has no link, no protocol and no driver
ClientCleared ==
    /\ bleak_client = "None"
    /\ ~client_protocol
    /\ ~client_driver

ReaderOver == cpc \in {"returned", "raised"}

\* C40: every device read (read_from_device, read_omron_device) has called
\* disconnect when it returns or raises, whichever of connect, unlock, read
\* or end_transmission failed, and the client is then not connected; and
\* disconnect always leaves the client without link, protocol and driver,
\* also when BleakClient.disconnect raises.
C40_ReadEndsDisconnected ==
    /\ [](ReaderOver =>
            /\ disconnects = 1
            /\ ~is_connected
            /\ ClientCleared
            /\ (cpc = "raised") <=> (pending_error # "none"))
    /\ [][cpc = "disconnect" => (ReaderOver' /\ ClientCleared')]_vars
    /\ [][ReaderOver' => cpc = "disconnect"]_vars

\* end_transmission failed, and BleakClient.disconnect raised on the link
\* still connected: the reader raised with the client cleared
C40_Witness ==
    /\ cpc = "raised"
    /\ pending_error = "end_failed"
    /\ ble_disconnect = "error"
    /\ ClientCleared
    /\ disconnects = 1

====
